---- MODULE Spec2Model ----
(***************************************************************************)
(* Recording session manager (background service worker), page agents      *)
(* (content script + Recorder) and the clients that drive them, modelled   *)
(* from src/src/background/index.ts, src/src/content/index.tsx and         *)
(* src/src/content/recorder.ts.                                            *)
(*                                                                         *)
(* Every message handler is an async function: it runs synchronously up to *)
(* its next await and is resumed when the awaited operation completes.     *)
(* A suspended handler is kept inside the thing it waits for: an entry of  *)
(* the storage queue, a tabs.query in progress, a message in flight to a   *)
(* tab, or an answer in flight back from the tab.                          *)
(***************************************************************************)
EXTENDS Integers, Sequences, FiniteSets, TLC

\* ---------------------------------------------------------------- bounds
\* of Spec: steps created, client commands, page loads, background restarts,
\* requests under way at once
MaxSteps == 2
MaxCmds == 2
MaxLoads == 1
MaxRestarts == 1
MaxInFlight == 2

\* ------------------------------------------------------------ vocabulary
Tabs == {1, 2}
Popup == 0
NoTab == 0
Null == [null |-> TRUE]
NoStep == [id |-> 0]

ClientTypes ==
  {"START_RECORDING", "STOP_RECORDING", "PAUSE_RECORDING", "RESUME_RECORDING",
   "UNDO_LAST_STEP", "ADD_MANUAL_STEP", "GET_RECORDING_STATE"}

VARIABLES
  recordingSession,  \* background: the in-memory session, or Null
  stored,            \* chrome.storage.local[RECORDING_SESSION_KEY], or Null
  storageQ,          \* storage operations issued and not yet completed (FIFO)
  querying,          \* START_RECORDING handlers awaiting chrome.tabs.query
  toBg,              \* messages in flight to the background
  toTab,             \* chrome.tabs.sendMessage calls in flight to a tab
  fromTab,           \* their outcomes in flight back to the background
  resps,             \* GET_RECORDING_STATE answers in flight to a page agent
  out,               \* the responses returned by the step just taken
  agent,             \* per tab: the content script and its Recorder
  captures,          \* clicks whose screenshot round trip is in progress
  nextId,            \* number of steps created so far + 1
  cmds,              \* client commands sent so far
  loads,             \* page loads so far
  restarts,          \* background restarts so far
  lim                \* the bounds and the environment of this run (constant)

VARIABLES
  flows,             \* chrome.storage.local["navio_flows"].flows
  blobs,             \* the IndexedDB screenshot store: its (flowId, stepId) keys
  calls,             \* flow-store handlers suspended at an await
  answer,            \* the responses returned by the flow-store step just taken
  toast,             \* what the popup last reported about a save
  uuid,              \* uuidv4(): number of ids generated so far + 1
  requests           \* flow-store requests made so far

storeVars == <<flows, blobs, calls, answer, toast, uuid, requests>>

VARIABLES
  playback           \* the page's PlaybackEngine and what it put on the page

VARIABLES
  locator            \* an element handed to generateSelector, and the outcome

vars ==
  <<recordingSession, stored, storageQ, querying, toBg, toTab, fromTab, resps,
    out, agent, captures, nextId, cmds, loads, restarts, lim, storeVars,
    playback, locator>>

sessionVars ==
  <<recordingSession, stored, storageQ, querying, toBg, toTab, fromTab, resps,
    out, agent, captures, nextId, cmds, loads, restarts, lim>>

\* ------------------------------------------------------------- messages
\* A message as the background's handler sees it: its type, sender.tab?.id
\* (Popup when the sender has no tab), the step of an ADD_STEP, whether the
\* sender still waits for the answer, and the handler's locals.
Msg(type, from, step) ==
  [type |-> type, from |-> from, step |-> step, reply |-> TRUE,
   tabId |-> NoTab, steps |-> <<>>]

\* A MessageResponse {success, data?, error?} returned to message h.
Response(h, success, error, data) ==
  [to |-> h.from, type |-> h.type, step |-> h.step, reply |-> h.reply,
   success |-> success, error |-> error, data |-> data]

NoData == [none |-> TRUE]

\* ------------------------------------------------------- session records
\* Date.now(): the clock, counted in the clicks made so far
Now == nextId

NewSession(tabId) ==
  [state |-> "recording", steps |-> <<>>, currentStepIndex |-> 0,
   startTime |-> Now, tabId |-> tabId]

Max(a, b) == IF a >= b THEN a ELSE b

\* recordingSession.steps.pop()
Pop(s) == IF Len(s) = 0 THEN s ELSE SubSeq(s, 1, Len(s) - 1)

\* ---------------------------------------------------------- the Recorder
FreshRecorder ==
  [loaded |-> FALSE, isRecording |-> FALSE, isPaused |-> FALSE,
   attached |-> FALSE, listeners |-> 0, currentTabId |-> NoTab,
   ignored |-> "none"]

\* attachClickListener as it would be without its "already attached" check
AttachClickListenerAgain(r) ==
  [r EXCEPT !.attached = TRUE, !.listeners = @ + 1]

\* attachClickListener: `attached` says that this.clickHandler is set,
\* `listeners` counts the click listeners the Recorder has on the document
AttachClickListener(r) ==
  IF r.attached THEN r
  ELSE [r EXCEPT !.attached = TRUE, !.listeners = @ + 1]

\* detachClickListener
DetachClickListener(r) ==
  IF r.attached THEN [r EXCEPT !.attached = FALSE, !.listeners = @ - 1]
  ELSE r

RecorderStart(r, tabId) ==
  IF r.isRecording THEN r
  ELSE AttachClickListener(
         [r EXCEPT !.currentTabId = IF tabId # NoTab THEN tabId ELSE @,
                   !.isRecording = TRUE, !.isPaused = FALSE])

RecorderStop(r) ==
  DetachClickListener([r EXCEPT !.isRecording = FALSE, !.isPaused = FALSE])

RecorderPause(r) ==
  IF ~r.isRecording THEN r
  ELSE DetachClickListener([r EXCEPT !.isPaused = TRUE])

RecorderResume(r) ==
  IF ~r.isRecording THEN r
  ELSE AttachClickListener([r EXCEPT !.isPaused = FALSE])

\* handleBeforeUnload: destroy(), which stops the Recorder
HandleBeforeUnload(r) == RecorderStop(r)

\* ------------------------------------------------------------ screenshots
FULL_SIZE_THRESHOLD_KB == 200

\* the size in bytes of an ordinary page capture
SmallImage == 1024

\* what a CAPTURE_SCREENSHOT round trip and the processing of its image
\* come to: kind is "ok" (an image of size bytes was captured and can be
\* decoded), "failure" (the background answers success = false), "threw"
\* (the request itself throws) or "undecodable" (the image processing fails)
Shot(kind, size) == [kind |-> kind, size |-> size]

Absent == "absent"

\* the screenshot fields of a step captured without screenshot data (the
\* flag is undefined, which the code only ever tests for truth)
NoScreenshot ==
  [screenshotThumb |-> Absent, screenshotFull |-> Absent,
   screenshotIndexedDB |-> FALSE]

\* captureAndProcessScreenshot: the thumbnail always, the full image
\* compressed below the threshold, raw and flagged for IndexedDB from it on
CaptureAndProcessScreenshot(size) ==
  IF size < FULL_SIZE_THRESHOLD_KB * 1024
  THEN [thumbnail |-> "thumbnail", full |-> "compressed", indexedDB |-> FALSE]
  ELSE [thumbnail |-> "thumbnail", full |-> "raw", indexedDB |-> TRUE]

\* captureClick: the screenshot fields it puts on the step
ScreenshotData(shot) ==
  IF shot.kind = "ok"
  THEN LET screenshot == CaptureAndProcessScreenshot(shot.size)
       IN [screenshotThumb |-> screenshot.thumbnail,
           screenshotFull |-> screenshot.full,
           screenshotIndexedDB |-> screenshot.indexedDB]
  ELSE NoScreenshot

\* ============================================================ flow store
\* The step store (utils/storage, utils/validation), the screenshot blob
\* store (utils/indexeddb), the background's flow handlers and the popup's
\* save dialog.  Strings whose length or content the code looks at are
\* sequences of characters.

\* a string of n characters
Text(n) == [i \in 1..n |-> "x"]

Onboarding == <<"O", "n", "b", "o", "a", "r", "d", "i", "n", "g">>

RECURSIVE TrimStart(_)
TrimStart(s) == IF s # <<>> /\ Head(s) = " " THEN TrimStart(Tail(s)) ELSE s

RECURSIVE TrimEnd(_)
TrimEnd(s) ==
  IF s # <<>> /\ s[Len(s)] = " " THEN TrimEnd(SubSeq(s, 1, Len(s) - 1)) ELSE s

\* String.prototype.trim
Trim(s) == TrimEnd(TrimStart(s))

MAX_FLOW_NAME_LENGTH == 100

\* A URL string: its text and the protocol new URL() finds in it ("" when
\* new URL() throws on it)
Url(href, protocol) == [href |-> href, protocol |-> protocol]

EmptyUrl == Url("", "")

\* new URL(url) does not throw
Parses(url) == url.protocol # ""

\* sanitizeUrl: the url when it is http or https, "" otherwise
SanitizeUrl(url) ==
  IF Parses(url) /\ url.protocol \in {"http:", "https:"} THEN url ELSE EmptyUrl

\* A selector is a sequence of fragments; sanitizeSelector drops script
\* tags, javascript: protocols and event handlers and cuts it at 1000
Unsafe == {"<script>x</script>", "javascript:", "onclick="}

SanitizeSelector(selector) ==
  LET kept == SelectSeq(selector, LAMBDA part : part \notin Unsafe)
  IN SubSeq(kept, 1, IF Len(kept) < 1000 THEN Len(kept) ELSE 1000)

StepTypes == {"click", "navigation", "input", "visibility", "manual"}

\* z.string().uuid(): ids are numbered, 0 is a string that is no uuid
IsUuid(id) == id \in Nat /\ id > 0

\* FlowStepSchema.parse succeeds
FlowStepSchema(step) ==
  /\ IsUuid(step.id)
  /\ step.type \in StepTypes
  /\ "selector" \notin step.missing
  /\ Parses(step.url)
  /\ Len(step.explanation) >= 1 /\ Len(step.explanation) <= 200
  /\ "order" \notin step.missing /\ step.order \in Nat

\* FlowSchema.parse succeeds
FlowSchema(flow) ==
  /\ IsUuid(flow.id)
  /\ Len(flow.name) >= 1 /\ Len(flow.name) <= 100
  /\ flow.createdAt # Absent
  /\ \A i \in DOMAIN flow.steps : FlowStepSchema(flow.steps[i])

\* what FlowStepSchema.parse returns: the keys the schema does not name
\* are stripped from meta
Parsed(step) ==
  [step EXCEPT !.meta = [@ EXCEPT !.screenshotFull = Absent,
                                  !.screenshotIndexedDB = FALSE]]

\* validateAndSanitizeFlow, for a flow that parses
ValidateAndSanitizeFlow(flow) ==
  [flow EXCEPT !.steps =
     [i \in DOMAIN @ |->
        [Parsed(@[i]) EXCEPT !.selector = SanitizeSelector(@),
                             !.url = SanitizeUrl(@)]]]

\* createFlowStep; missing is the set of keys an object lacks
FlowStep(id, url, explanation, order, meta) ==
  [id |-> id, type |-> "click", selector |-> <<"#save">>, url |-> url,
   explanation |-> explanation, order |-> order, meta |-> meta,
   missing |-> {}]

FlowRecord(id, name, steps) ==
  [id |-> id, name |-> name, createdAt |-> "created", updatedAt |-> Absent,
   steps |-> steps]

\* createFlow: a new id, each step's order kept when it has one
CreateFlow(name, steps) ==
  FlowRecord(uuid, name,
             [i \in DOMAIN steps |->
                [steps[i] EXCEPT !.order = IF "order" \in steps[i].missing
                                           THEN i - 1 ELSE @,
                                 !.missing = @ \ {"order"}]])

\* JSON text: what JSON.parse makes of it (Null when it throws)
Json(value) == [value |-> value]

ExportFlowToJSON(flow) == Json(flow)

\* importFlowFromJSON: null on invalid JSON or an invalid flow, otherwise
\* the sanitized flow under a new id
ImportFlowFromJSON(json) ==
  IF json.value = Null \/ ~FlowSchema(json.value)
  THEN Null
  ELSE [ValidateAndSanitizeFlow(json.value) EXCEPT !.id = uuid,
                                                    !.createdAt = "imported"]

\* saveFlow's new list: the flow replaces the one with its id or is pushed
Saved(list, flow) ==
  LET updatedFlow == [flow EXCEPT !.updatedAt = "updated"]
  IN IF \E i \in DOMAIN list : list[i].id = flow.id
     THEN [i \in DOMAIN list |->
             IF list[i].id = flow.id THEN updatedFlow ELSE list[i]]
     ELSE Append(list, updatedFlow)

\* deleteFlow's new list
Deleted(list, flowId) == SelectSeq(list, LAMBDA f : f.id # flowId)

\* a handler suspended at an await: which handler, where, on what
Call(kind, pc, flow, flowId, snap) ==
  [kind |-> kind, pc |-> pc, flow |-> flow, flowId |-> flowId, snap |-> snap]

Answer(kind, flowId, success) ==
  [kind |-> kind, flowId |-> flowId, success |-> success]

NoToast == [kind |-> "none", flow |-> Null]

FreshStore ==
  /\ flows = <<>>
  /\ blobs = {}
  /\ calls = {}
  /\ answer = {}
  /\ toast = NoToast
  /\ uuid = 1
  /\ requests = 0

\* ---- bounds and inputs of the flow-store scenarios
MaxRequests == 2
MaxCalls == 2

WebUrl == Url("https://app.example/a", "https:")

UrlInputs ==
  {WebUrl, Url("http://app.example/b", "http:"),
   Url("ftp://files.example/c", "ftp:"), Url("javascript:alert(1)", "javascript:"),
   Url("not a url", "")}

RoutedScreenshot ==
  [screenshotThumb |-> "thumbnail", screenshotFull |-> "raw",
   screenshotIndexedDB |-> TRUE]

GoodSteps ==
  <<FlowStep(11, WebUrl, Text(1), 0, NoScreenshot),
    FlowStep(12, WebUrl, Text(200), 1, RoutedScreenshot)>>

OneStep(url) == <<FlowStep(11, url, Text(1), 0, NoScreenshot)>>

BadSteps ==
  {<<GoodSteps[1], FlowStep(12, WebUrl, explanation, 1, NoScreenshot)>> :
     explanation \in {Text(0), Text(201)}}
  \cup {<<[GoodSteps[1] EXCEPT !.missing = {"selector"}]>>,
        <<[GoodSteps[1] EXCEPT !.type = "hover"]>>,
        <<[GoodSteps[1] EXCEPT !.order = -1]>>}

\* the id of a flow saved earlier
Existing == 9

FlowIds == {Existing, 1}

FlowInputs ==
  {FlowRecord(Existing, Onboarding, steps) :
     steps \in {GoodSteps} \cup {OneStep(url) : url \in UrlInputs} \cup BadSteps}
  \cup {FlowRecord(Existing, name, GoodSteps) : name \in {<<>>, Text(100), Text(101)}}
  \cup {FlowRecord(0, Onboarding, GoodSteps)}

JsonInputs ==
  {Json(Null)}
  \cup {ExportFlowToJSON(FlowRecord(Existing, Onboarding, steps)) :
          steps \in {GoodSteps, OneStep(Url("ftp://files.example/c", "ftp:")),
                     <<[GoodSteps[1] EXCEPT !.type = "hover"]>>}}
  \cup {ExportFlowToJSON(FlowRecord(Existing, Text(101), GoodSteps))}

NameInputs ==
  {Onboarding, <<" ">> \o Onboarding \o <<" ">>, <<>>, <<" ", " ">>, Text(101)}

PendingInputs ==
  {GoodSteps, OneStep(Url("ftp://files.example/c", "ftp:")),
   <<GoodSteps[1], FlowStep(12, WebUrl, Text(201), 1, NoScreenshot)>>}

\* ---- saveFlow / deleteFlow, shared by every caller
\* saveFlow as it would be if it did not validate before reading
SaveFlowBeginsUnchecked(kind, flow) ==
  /\ calls' = calls \cup {Call(kind, "read", flow, flow.id, <<>>)}
  /\ answer' = {}

\* saveFlow up to its first await: false at once when validation throws,
\* otherwise the handler waits for getAllFlows
SaveFlowBegins(kind, flow) ==
  IF FlowSchema(flow)
  THEN /\ calls' = calls \cup {Call(kind, "read", flow, flow.id, <<>>)}
       /\ answer' = {}
  ELSE /\ calls' = calls
       /\ answer' = {Answer(kind, flow.id, FALSE)}

\* a request is made: the scenario's bounds, and the count
Requested ==
  /\ Cardinality(calls) < MaxCalls
  /\ requests < MaxRequests
  /\ requests' = requests + 1

\* SAVE_FLOW
SaveFlowRequest(flow) ==
  /\ Requested
  /\ SaveFlowBegins("SAVE_FLOW", flow)
  /\ UNCHANGED <<flows, blobs, toast, uuid, sessionVars, playback, locator>>

\* IMPORT_FLOW
ImportFlowRequest(json) ==
  /\ Requested
  /\ LET flow == ImportFlowFromJSON(json)
     IN IF flow = Null
        THEN /\ answer' = {Answer("IMPORT_FLOW", 0, FALSE)}
             /\ UNCHANGED <<calls, uuid>>
        ELSE /\ SaveFlowBegins("IMPORT_FLOW", flow)
             /\ uuid' = uuid + 1
  /\ UNCHANGED <<flows, blobs, toast, sessionVars, playback, locator>>

\* DELETE_FLOW: deleteFlow waits for getAllFlows
DeleteFlowRequest(flowId) ==
  /\ Requested
  /\ calls' = calls \cup {Call("DELETE_FLOW", "read", Null, flowId, <<>>)}
  /\ answer' = {}
  /\ UNCHANGED <<flows, blobs, toast, uuid, sessionVars, playback, locator>>

\* getAllFlows resolves: the handler holds the list as it is now
ReadFlows(c) ==
  /\ c.pc = "read"
  /\ calls' = (calls \ {c}) \cup {[c EXCEPT !.pc = "write", !.snap = flows]}
  /\ answer' = {}
  /\ UNCHANGED <<flows, blobs, toast, uuid, requests, sessionVars, playback, locator>>

\* SAVE_SCREENSHOT as the background handles it: a Blob or a data URL is
\* stored, anything else (a Blob the messaging layer serialized) is refused
SaveScreenshot(store, flowId, stepId, screenshot, works) ==
  IF screenshot \in {"Blob", "dataUrl"} /\ works
  THEN store \cup {[flowId |-> flowId, stepId |-> stepId]}
  ELSE store

\* the popup's loop over the pending steps: each flagged step's image is
\* sent with SAVE_SCREENSHOT
RECURSIVE SaveScreenshots(_, _, _, _, _)
SaveScreenshots(store, flowId, steps, screenshot, works) ==
  IF steps = <<>>
  THEN store
  ELSE LET step == Head(steps)
           rest == SaveScreenshots(store, flowId, Tail(steps), screenshot, works)
       IN IF step.meta.screenshotIndexedDB
             /\ step.meta.screenshotFull \notin {Absent, ""}
          THEN SaveScreenshot(rest, flowId, step.id, screenshot, works)
          ELSE rest

\* a SAVE_SCREENSHOT with a data URL
SaveScreenshotRequest(flowId, stepId, works) ==
  /\ requests < MaxRequests
  /\ requests' = requests + 1
  /\ blobs' = SaveScreenshot(blobs, flowId, stepId, "dataUrl", works)
  /\ answer' = {Answer("SAVE_SCREENSHOT", flowId, works)}
  /\ UNCHANGED <<flows, calls, toast, uuid, sessionVars, playback, locator>>

\* chrome.storage.local.set settles: the list the handler computed from
\* what it read is written, or the write is rejected; then the handler
\* goes on
WriteFlows(c, ok) ==
  /\ c.pc = "write"
  /\ flows' = IF ~ok THEN flows
              ELSE IF c.kind = "DELETE_FLOW" THEN Deleted(c.snap, c.flowId)
              ELSE Saved(c.snap, ValidateAndSanitizeFlow(c.flow))
  /\ CASE c.kind \in {"SAVE_FLOW", "IMPORT_FLOW"} ->
            /\ calls' = calls \ {c}
            /\ answer' = {Answer(c.kind, c.flowId, ok)}
       [] c.kind = "DELETE_FLOW" /\ ok ->
            /\ calls' = (calls \ {c}) \cup {[c EXCEPT !.pc = "screenshots"]}
            /\ answer' = {}
       [] c.kind = "DELETE_FLOW" /\ ~ok ->
            /\ calls' = calls \ {c}
            /\ answer' = {Answer(c.kind, c.flowId, FALSE)}
       [] c.kind = "createFlow" ->
            /\ calls' = (calls \ {c}) \cup
                        {[c EXCEPT !.kind = "popup SAVE_FLOW", !.pc = "read"]}
            /\ answer' = {}
       [] c.kind = "popup SAVE_FLOW" ->
            /\ calls' = (calls \ {c}) \cup {[c EXCEPT !.pc = "screenshots"]}
            /\ answer' = {Answer("SAVE_FLOW", c.flowId, ok)}
  /\ UNCHANGED <<blobs, toast, uuid, requests, sessionVars, playback, locator>>

\* DELETE_FLOW as it would be if a failed blob cleanup failed the delete
DeleteScreenshotsFailsDelete(c, works) ==
  /\ c.kind = "DELETE_FLOW" /\ c.pc = "screenshots"
  /\ blobs' = IF works THEN {b \in blobs : b.flowId # c.flowId} ELSE blobs
  /\ calls' = calls \ {c}
  /\ answer' = {Answer("DELETE_FLOW", c.flowId, works)}
  /\ UNCHANGED <<flows, toast, uuid, requests, sessionVars, playback, locator>>

\* DELETE_FLOW after a successful deleteFlow: deleteScreenshots removes the
\* flow's blobs in one transaction, or fails and removes none; the
\* response is success either way
DeleteScreenshots(c, works) ==
  /\ c.kind = "DELETE_FLOW" /\ c.pc = "screenshots"
  /\ blobs' = IF works THEN {b \in blobs : b.flowId # c.flowId} ELSE blobs
  /\ calls' = calls \ {c}
  /\ answer' = {Answer("DELETE_FLOW", c.flowId, TRUE)}
  /\ UNCHANGED <<flows, toast, uuid, requests, sessionVars, playback, locator>>

\* handleSaveFlow up to its first await: the name is checked, createFlow
\* builds the flow and calls saveFlow
HandleSaveFlow(name, pendingSteps) ==
  LET trimmedName == Trim(name)
      flow == CreateFlow(trimmedName, pendingSteps)
  IN /\ Requested
     /\ \A c \in calls : c.kind \notin {"createFlow", "popup SAVE_FLOW"}
     /\ answer' = {}
     /\ IF trimmedName = <<>> \/ Len(trimmedName) > MAX_FLOW_NAME_LENGTH
        THEN /\ toast' = [kind |-> "error", flow |-> Null]
             /\ UNCHANGED <<calls, uuid>>
        ELSE /\ toast' = NoToast
             /\ uuid' = uuid + 1
             /\ calls' = calls \cup
                  {Call("createFlow",
                        IF FlowSchema(flow) THEN "read" ELSE "screenshots",
                        flow, flow.id, <<>>)}
     /\ UNCHANGED <<flows, blobs, sessionVars, playback, locator>>

\* handleSaveFlow after SAVE_FLOW was answered: the flagged screenshots are
\* sent, then the popup reports the save
PopupFinishes(c, screenshot, works) ==
  /\ c.kind \in {"createFlow", "popup SAVE_FLOW"} /\ c.pc = "screenshots"
  /\ blobs' = SaveScreenshots(blobs, c.flow.id, c.flow.steps, screenshot, works)
  /\ toast' = [kind |-> "success", flow |-> c.flow]
  /\ calls' = calls \ {c}
  /\ answer' = {}
  /\ UNCHANGED <<flows, uuid, requests, sessionVars, playback, locator>>

NextStore ==
  \/ \E flow \in FlowInputs : SaveFlowRequest(flow)
  \/ \E json \in JsonInputs : ImportFlowRequest(json)
  \/ \E flowId \in FlowIds : DeleteFlowRequest(flowId)
  \/ \E c \in calls : ReadFlows(c)
  \/ \E c \in calls, ok \in BOOLEAN : WriteFlows(c, ok)
  \/ \E c \in calls, works \in BOOLEAN : DeleteScreenshots(c, works)
  \/ \E flowId \in FlowIds, works \in BOOLEAN :
       SaveScreenshotRequest(flowId, 12, works)
  \/ \E name \in NameInputs, steps \in PendingInputs : HandleSaveFlow(name, steps)
  \/ \E c \in calls, screenshot \in {"Blob", "object"}, works \in BOOLEAN :
       PopupFinishes(c, screenshot, works)

\* ======================================================= playback engine
\* content/playback.ts: the engine's fields and what it has put on the
\* page (overlay nodes, connected observers, keydown listeners, timers).

Letters ==
  [A |-> "a", B |-> "b", C |-> "c", D |-> "d", E |-> "e", F |-> "f",
   G |-> "g", H |-> "h", I |-> "i", J |-> "j", K |-> "k", L |-> "l",
   M |-> "m", N |-> "n", O |-> "o", P |-> "p", Q |-> "q", R |-> "r",
   S |-> "s", T |-> "t", U |-> "u", V |-> "v", W |-> "w", X |-> "x",
   Y |-> "y", Z |-> "z"]

\* String.prototype.toLowerCase
ToLowerCase(text) ==
  [i \in DOMAIN text |->
     IF text[i] \in DOMAIN Letters THEN Letters[text[i]] ELSE text[i]]

\* String.prototype.includes
Includes(text, keyword) ==
  \E i \in 1..(Len(text) - Len(keyword) + 1) :
    SubSeq(text, i, i + Len(keyword) - 1) = keyword

dangerousKeywords ==
  {<<"d", "e", "l", "e", "t", "e">>, <<"r", "e", "m", "o", "v", "e">>,
   <<"d", "e", "s", "t", "r", "o", "y">>, <<"c", "l", "e", "a", "r">>,
   <<"r", "e", "s", "e", "t">>, <<"c", "a", "n", "c", "e", "l">>,
   <<"c", "l", "o", "s", "e">>, <<"l", "o", "g", "o", "u", "t">>,
   <<"s", "i", "g", "n", " ", "o", "u", "t">>}

\* An element of the page: whether it is an HTMLElement, its tag, its
\* textContent, its aria-label, whether it is a submit button, and the
\* textContent of the form around it (NoForm outside a form)
NoForm == <<"no form">>

NoElement == <<>>

Element(html, tag, text, aria, submit, form) ==
  [html |-> html, tag |-> tag, textContent |-> text, ariaLabel |-> aria,
   submit |-> submit, form |-> form]

Elements ==
  (<<"#save">> :> Element(TRUE, "button", <<"S", "a", "v", "e">>, <<>>, FALSE, NoForm))
  @@ (<<"#delete">> :>
        Element(TRUE, "button",
                <<"D", "e", "l", "e", "t", "e", " ", "A", "c", "c", "o", "u", "n", "t">>,
                <<>>, FALSE, NoForm))
  @@ (<<"#trash">> :>
        Element(TRUE, "button", <<"x">>, <<"R", "E", "M", "O", "V", "E", " ", "i", "t", "e", "m">>,
                FALSE, NoForm))
  @@ (<<"#ok">> :>
        Element(TRUE, "button", <<"O", "K">>, <<>>, TRUE,
                <<"R", "e", "s", "e", "t", " ", "a", "l", "l", "?", "O", "K">>))
  @@ (<<"#icon">> :> Element(FALSE, "svg", <<"d", "e", "l", "e", "t", "e">>, <<>>, FALSE, NoForm))
  @@ (<<"#more">> :>
        Element(TRUE, "a", <<"M", "o", "r", "e">>, <<>>, FALSE,
                <<"R", "e", "s", "e", "t", " ", "a", "l", "l", "?", "M", "o", "r", "e">>))

\* isDangerousAction as it would be without lowering the case
IsDangerousCaseSensitive(element) ==
  /\ element.html
  /\ \/ \E keyword \in dangerousKeywords : Includes(element.textContent, keyword)
     \/ \E keyword \in dangerousKeywords : Includes(element.ariaLabel, keyword)
     \/ /\ element.tag = "button" /\ element.submit /\ element.form # NoForm
        /\ \E keyword \in dangerousKeywords : Includes(element.form, keyword)

\* isDangerousAction
IsDangerousAction(element) ==
  /\ element.html
  /\ \/ \E keyword \in dangerousKeywords :
          Includes(ToLowerCase(element.textContent), keyword)
     \/ \E keyword \in dangerousKeywords :
          Includes(ToLowerCase(element.ariaLabel), keyword)
     \/ /\ element.tag = "button" /\ element.submit /\ element.form # NoForm
        /\ \E keyword \in dangerousKeywords :
             Includes(ToLowerCase(element.form), keyword)

FreshPlayback ==
  playback =
    [isPlaying |-> FALSE, currentStepIndex |-> 0, flow |-> Null,
     highlight |-> NoElement, tooltip |-> NoElement,
     mutationObserver |-> FALSE,
     keyboardHandler |-> FALSE,
     dom |-> {}, highlights |-> 0, tooltips |-> 0, observers |-> 0,
     keydown |-> 0, timers |-> 0, waiting |-> <<>>, events |-> <<>>, clicked |-> {},
     threw |-> FALSE, call |-> "none", stops |-> 0,
     href |-> "https://app.example/a"]

\* findElement: the element the selector resolves to on the page, or null
FindElement(p, selector) ==
  IF selector = <<>> \/ selector \notin p.dom THEN NoElement ELSE selector

Fired(p, event) == [p EXCEPT !.events = Append(@, event)]

\* cleanupOverlays
CleanupOverlays(p) ==
  [p EXCEPT !.highlights = IF p.highlight # NoElement THEN @ - 1 ELSE @,
            !.highlight = NoElement,
            !.tooltips = IF p.tooltip # NoElement THEN @ - 1 ELSE @,
            !.tooltip = NoElement,
            !.observers = IF p.mutationObserver THEN @ - 1 ELSE @,
            !.mutationObserver = FALSE]

\* cleanup as it would be if it left the keyboard listener attached
CleanupKeepsListener(p) ==
  LET q == CleanupOverlays(p)
  IN [q EXCEPT !.keyboardHandler = FALSE]

\* cleanup
Cleanup(p) ==
  LET q == CleanupOverlays(p)
  IN [q EXCEPT !.keydown = IF q.keyboardHandler THEN @ - 1 ELSE @,
               !.keyboardHandler = FALSE]

\* stop
Stop(p) ==
  LET q == Fired(Cleanup([p EXCEPT !.isPlaying = FALSE]),
                 <<"onPlaybackStateChanged", FALSE>>)
  IN [q EXCEPT !.flow = Null, !.currentStepIndex = 0]

\* renderOverlays: the old overlays go, a highlight and a tooltip are put
\* on the element, the engine observes the document
RenderOverlays(p, element) ==
  LET q == CleanupOverlays(p)
  IN [q EXCEPT !.highlight = element, !.highlights = @ + 1,
               !.tooltip = element, !.tooltips = @ + 1,
               !.mutationObserver = TRUE, !.observers = @ + 1]

\* handleElementNotFound
HandleElementNotFound(p, step) ==
  Fired(CleanupOverlays(p), <<"onElementNotFound", step.id>>)

\* goToStep; checkUrlMatch throws when the step's url is no URL
GoToStep(p, index) ==
  IF p.flow = Null \/ index < 0 \/ index >= Len(p.flow.steps)
  THEN p
  ELSE LET q == [p EXCEPT !.currentStepIndex = index]
           step == p.flow.steps[index + 1]
           element == FindElement(q, step.selector)
       IN IF ~Parses(step.url) THEN [q EXCEPT !.threw = TRUE]
          ELSE IF element # NoElement
          THEN Fired(RenderOverlays(q, element), <<"onStepChanged", index>>)
          ELSE HandleElementNotFound(q, step)

\* start
Start(p, flow) ==
  LET q == IF p.isPlaying THEN Stop(p) ELSE p
      r == Fired([q EXCEPT !.flow = flow, !.isPlaying = TRUE,
                           !.currentStepIndex = 0],
                 <<"onPlaybackStateChanged", TRUE>>)
  IN GoToStep([r EXCEPT !.keyboardHandler = TRUE, !.keydown = @ + 1], 0)

\* performStepAction
PerformStepAction(p, step) ==
  CASE step.type = "click" ->
         LET element == FindElement(p, step.selector)
         IN IF element = NoElement THEN p
            ELSE IF IsDangerousAction(Elements[element]) THEN p
            ELSE IF Elements[element].html
            THEN Fired([p EXCEPT !.clicked = @ \cup {element}],
                       <<"onActionPerformed", step.id>>)
            ELSE p
    [] step.type = "navigation" ->
         IF step.url.href # "" /\ step.url.href # p.href
         THEN Fired([p EXCEPT !.href = step.url.href],
                    <<"onActionPerformed", step.id>>)
         ELSE p
    [] OTHER -> p

\* next up to its 300 ms wait
NextBegins(p) ==
  IF p.flow = Null \/ p.currentStepIndex >= Len(p.flow.steps)
  THEN p
  ELSE LET q == PerformStepAction(p, p.flow.steps[p.currentStepIndex + 1])
       IN IF q.currentStepIndex < Len(q.flow.steps) - 1
          THEN [q EXCEPT !.timers = @ + 1,
                         !.waiting = Append(@, p.currentStepIndex)]
          ELSE q

\* next after its wait, as it would be if it did not advance
NextResumesStays(p) ==
  GoToStep([p EXCEPT !.timers = @ - 1, !.waiting = Tail(@)],
           p.currentStepIndex)

\* next after its wait
NextResumes(p) ==
  GoToStep([p EXCEPT !.timers = @ - 1, !.waiting = Tail(@)],
           p.currentStepIndex + 1)

\* previous
Previous(p) ==
  IF p.currentStepIndex > 0 THEN GoToStep(p, p.currentStepIndex - 1) ELSE p

\* the engine's MutationObserver callback
MutationCallback(p) ==
  IF p.flow = Null THEN p
  ELSE LET step == p.flow.steps[p.currentStepIndex + 1]
           foundElement == FindElement(p, step.selector)
       IN IF foundElement # NoElement
          THEN [p EXCEPT !.highlight = IF @ # NoElement THEN foundElement ELSE @,
                         !.tooltip = IF @ # NoElement THEN foundElement ELSE @]
          ELSE HandleElementNotFound(p, step)

\* ---- bounds and inputs of the playback scenarios
MaxTimers == 1

PlayStep(id, type, selector, url) ==
  [FlowStep(id, url, Text(1), 0, NoScreenshot) EXCEPT !.type = type,
                                                      !.selector = selector]

PlayFlows ==
  {FlowRecord(1, Onboarding,
              <<PlayStep(21, "click", <<"#save">>, WebUrl),
                PlayStep(22, "click", sel, WebUrl),
                PlayStep(23, "manual", <<>>, WebUrl)>>) :
     sel \in {<<"#delete">>, <<"#trash">>, <<"#ok">>, <<"#icon">>, <<"#more">>}}
  \cup {FlowRecord(2, Onboarding,
                   <<PlayStep(21, "click", <<"#save">>, WebUrl),
                     PlayStep(24, "click", <<"#delete">>, EmptyUrl)>>)}

\* what every call starts from: nothing fired, nothing clicked, nothing
\* thrown; the call made and the number of stop() calls in a row are noted
Calling(call, stops) ==
  [playback EXCEPT !.events = <<>>, !.clicked = {}, !.threw = FALSE,
                   !.call = call, !.stops = stops]

PlayStart(flow) ==
  /\ playback' = Start(Calling("start", 0), flow)
  /\ UNCHANGED <<sessionVars, storeVars, locator>>

PlayStop ==
  /\ playback.stops < 2
  /\ playback' = Stop(Calling("stop", playback.stops + 1))
  /\ UNCHANGED <<sessionVars, storeVars, locator>>

PlayGoToStep(index) ==
  /\ playback' = GoToStep(Calling("goToStep", 0), index)
  /\ UNCHANGED <<sessionVars, storeVars, locator>>

PlayNext ==
  /\ playback.timers < lim.timers
  /\ playback' = NextBegins(Calling("next", 0))
  /\ UNCHANGED <<sessionVars, storeVars, locator>>

PlayNextResumes ==
  /\ playback.timers > 0
  /\ playback' = NextResumes(Calling("next resumes", 0))
  /\ UNCHANGED <<sessionVars, storeVars, locator>>

PlayPrevious ==
  /\ playback' = Previous(Calling("previous", 0))
  /\ UNCHANGED <<sessionVars, storeVars, locator>>

\* a key pressed outside an input: every attached handler runs
KeyDown(key) ==
  /\ playback.keydown > 0
  /\ playback.isPlaying
  /\ key = "ArrowRight" => playback.timers < lim.timers
  /\ key = "Escape" => playback.stops < 2
  /\ playback' =
       CASE key = "ArrowRight" -> NextBegins(Calling("next", 0))
         [] key = "ArrowLeft" -> Previous(Calling("previous", 0))
         [] key = "Escape" -> Stop(Calling("stop", playback.stops + 1))
  /\ UNCHANGED <<sessionVars, storeVars, locator>>

\* the page changes under the engine: an element appears or goes, and a
\* connected observer's callback runs
DomChange(selector) ==
  LET p == [Calling("mutation", 0) EXCEPT
              !.dom = IF selector \in @ THEN @ \ {selector} ELSE @ \cup {selector}]
  IN /\ playback' = IF p.observers > 0 THEN MutationCallback(p) ELSE p
     /\ UNCHANGED <<sessionVars, storeVars, locator>>

NextPlayback ==
  \/ \E flow \in PlayFlows : PlayStart(flow)
  \/ PlayStop
  \/ \E index \in -1..3 : PlayGoToStep(index)
  \/ PlayNext
  \/ PlayNextResumes
  \/ PlayPrevious
  \/ \E key \in {"ArrowRight", "ArrowLeft", "Escape"} : KeyDown(key)
  \/ \E selector \in DOMAIN Elements : DomChange(selector)

\* ---------------------------------------------- selectors: generate, resolve
\* A document is the sequence of its elements in document order.  An element
\* has its parent's position (0 for the root), its tagName, its id ("" when
\* it has none), its classList and its two data attributes; getAttribute
\* gives null for an attribute that is not there and the value for one that
\* is, the empty value included.
NoAttribute == [present |-> FALSE, value |-> <<>>]

Attribute(value) == [present |-> TRUE, value |-> value]

Node(parent, tagName, testid, dataId, id, classList) ==
  [parent |-> parent, tagName |-> tagName, testid |-> testid,
   dataId |-> dataId, id |-> id, classList |-> classList]

NoNode == 0

GetAttribute(element, attr) ==
  IF attr = "data-testid" THEN element.testid ELSE element.dataId

\* The characters escapeSelector escapes, but for the grave accent, which no
\* string of this module holds
SpecialChars ==
  {"!", "\"", "#", "$", "%", "&", "'", "(", ")", "*", "+", ",", ".", ":",
   ";", "<", "=", ">", "?", "@", "[", "\\", "]", "^", "{", "|", "}", "~"}

RECURSIVE EscapeSelector(_)
EscapeSelector(str) ==
  IF str = <<>> THEN <<>>
  ELSE (IF Head(str) \in SpecialChars THEN <<"\\", Head(str)>>
        ELSE <<Head(str)>>) \o EscapeSelector(Tail(str))

\* What the CSS parser makes of an escaped identifier or string
RECURSIVE CssUnescape(_)
CssUnescape(str) ==
  IF str = <<>> THEN <<>>
  ELSE IF Head(str) = "\\" /\ Len(str) >= 2
       THEN <<str[2]>> \o CssUnescape(SubSeq(str, 3, Len(str)))
       ELSE <<Head(str)>> \o CssUnescape(Tail(str))

AlphaChars == DOMAIN Letters \cup {Letters[c] : c \in DOMAIN Letters}

DigitChars == {"0", "1", "2", "3", "4", "5", "6", "7", "8", "9"}

IsValidId(id) ==
  /\ id # <<>>
  /\ id[1] \in AlphaChars \cup {"_", "-"}
  /\ \A i \in 2..Len(id) : id[i] \in AlphaChars \cup DigitChars \cup {"_", "-"}

\* The four forms of selector text.  `names` holds the escaped values as
\* they stand in the text, `path` the steps of an absolute path.
Selector(form, attr, tag, names, nth, path) ==
  [form |-> form, attr |-> attr, tag |-> tag, names |-> names, nth |-> nth,
   path |-> path]

\* [attr="value"]
AttributeSelector(attr, value) ==
  Selector("attribute", attr, <<>>, <<value>>, 0, <<>>)

\* #id
IdSelector(id) == Selector("id", "", <<>>, <<id>>, 0, <<>>)

\* tag.class.class and tag.class:nth-of-type(n)
ClassSelector(tag, classes, nth) ==
  Selector("class", "", tag, classes, nth, <<>>)

\* //*[@id="id"]
XPathOfId(id) == Selector("//", "", <<>>, <<id>>, 0, <<>>)

\* /tag[index]/tag[index]
XPathOfPath(path) == Selector("/", "", <<>>, <<>>, 0, path)

\* selector.startsWith("/") || selector.startsWith("//")
StartsWithSlash(selector) == selector.form \in {"/", "//"}

Positions(doc, Test(_)) ==
  SelectSeq([i \in 1..Len(doc) |-> i], Test)

IndexOf(seq, x) ==
  IF \E i \in DOMAIN seq : seq[i] = x
  THEN CHOOSE i \in DOMAIN seq : seq[i] = x /\ \A j \in 1..(i - 1) : seq[j] # x
  ELSE 0

\* Array.from(parent.children).filter(child => child.tagName === tagName);
\* the root element has no parentElement and so no siblings
SameTagChildren(doc, parent, tagName) ==
  LET Test(i) == doc[i].parent = parent /\ doc[i].tagName = tagName
  IN  IF parent = 0 THEN <<>> ELSE Positions(doc, Test)

\* element.matches(selector) for a selector the CSS parser accepts
Matches(doc, i, selector) ==
  LET element == doc[i]
      value == CssUnescape(selector.names[1])
      attribute == GetAttribute(element, selector.attr)
      ofType == LET Test(j) == /\ doc[j].parent = element.parent
                               /\ doc[j].tagName = element.tagName
                IN  Positions(doc, Test)
  IN  CASE selector.form = "attribute" ->
             attribute.present /\ attribute.value = value
        [] selector.form = "id" -> element.id # <<>> /\ element.id = value
        [] OTHER ->
             /\ ToLowerCase(element.tagName) = ToLowerCase(selector.tag)
             /\ \A k \in DOMAIN selector.names :
                  \E c \in DOMAIN element.classList :
                    element.classList[c] = CssUnescape(selector.names[k])
             /\ selector.nth = 0 \/ IndexOf(ofType, i) = selector.nth

\* document.querySelectorAll(selector), in document order
QuerySelectorAll(doc, selector) ==
  LET Test(i) == Matches(doc, i, selector)
  IN  Positions(doc, Test)

StartsWithUnderscore(cls) == cls # <<>> /\ cls[1] = "_"

NoSelector == Selector("", "", <<>>, <<>>, 0, <<>>)

\* generateClassSelector: NoSelector stands for null
GenerateClassSelector(doc, node) ==
  LET element == doc[node]
      Kept(cls) == ~StartsWithUnderscore(cls)
      kept == SelectSeq(element.classList, Kept)
      classes == [i \in DOMAIN kept |-> EscapeSelector(kept[i])]
      tagName == ToLowerCase(element.tagName)
      Unique(selector) == Len(QuerySelectorAll(doc, selector)) = 1
      lengths == {i \in 1..3 : i <= Len(classes)}
      unique == {i \in lengths :
                   Unique(ClassSelector(tagName, SubSeq(classes, 1, i), 0))}
      shortest == CHOOSE i \in unique : \A j \in unique : i <= j
      baseSelector == ClassSelector(tagName, classes, 0)
      siblings == LET Test(i) == /\ doc[i].parent = element.parent
                                 /\ doc[i].tagName = element.tagName
                                 /\ \A k \in DOMAIN kept :
                                      \E c \in DOMAIN doc[i].classList :
                                        doc[i].classList[c] = kept[k]
                  IN  IF element.parent = 0 THEN <<>>
                      ELSE Positions(doc, Test)
  IN  IF Len(classes) = 0 THEN NoSelector
      ELSE IF unique # {}
           THEN ClassSelector(tagName, SubSeq(classes, 1, shortest), 0)
           ELSE IF Len(siblings) > 1
                THEN ClassSelector(tagName, classes, IndexOf(siblings, node))
                ELSE baseSelector

\* One step of an absolute path
PathStep(tag, index) == [tag |-> tag, index |-> index]

RECURSIVE PathTo(_, _)
PathTo(doc, node) ==
  IF node = 0 THEN <<>>
  ELSE LET element == doc[node]
           siblings == SameTagChildren(doc, element.parent, element.tagName)
           index == IF Len(siblings) > 1 THEN IndexOf(siblings, node) ELSE 1
       IN  Append(PathTo(doc, element.parent),
                  PathStep(ToLowerCase(element.tagName), index))

\* generateXPath
GenerateXPath(doc, node) ==
  IF doc[node].id # <<>> THEN XPathOfId(doc[node].id)
  ELSE XPathOfPath(PathTo(doc, node))

SelectorResult(selector, type, score) ==
  [selector |-> selector, type |-> type, score |-> score]

\* the choice as it would be if the sort were ascending
LowestScore(results) ==
  LET worst == CHOOSE i \in DOMAIN results :
                 /\ \A j \in DOMAIN results : results[j].score >= results[i].score
                 /\ \A j \in 1..(i - 1) : results[j].score > results[i].score
  IN  results[worst]

\* results.sort((a, b) => b.score - a.score)[0]: the first of the candidates
\* with the highest score
HighestScore(results) ==
  LET best == CHOOSE i \in DOMAIN results :
                /\ \A j \in DOMAIN results : results[j].score <= results[i].score
                /\ \A j \in 1..(i - 1) : results[j].score < results[i].score
  IN  results[best]

\* generateSelector
GenerateSelector(doc, node) ==
  LET element == doc[node]
      dataAttrs == <<"data-testid", "data-id">>
      Truthy(attr) == /\ GetAttribute(element, attr).present
                      /\ GetAttribute(element, attr).value # <<>>
      found == SelectSeq(dataAttrs, Truthy)
      data == IF found = <<>> THEN <<>>
              ELSE <<SelectorResult(
                       AttributeSelector(found[1],
                         EscapeSelector(GetAttribute(element, found[1]).value)),
                       "data-attribute", 100)>>
      id == EscapeSelector(element.id)
      byId == IF element.id # <<>> /\ IsValidId(id)
              THEN <<SelectorResult(IdSelector(id), "id", 80)>>
              ELSE <<>>
      classSelector == GenerateClassSelector(doc, node)
      byClass == IF Len(element.classList) > 0 /\ classSelector # NoSelector
                 THEN <<SelectorResult(classSelector, "class", 60)>>
                 ELSE <<>>
      xpath == <<SelectorResult(GenerateXPath(doc, node), "xpath", 20)>>
  IN  HighestScore(data \o byId \o byClass \o xpath)

\* document.evaluate(xpath, document, null, FIRST_ORDERED_NODE_TYPE, null)
RECURSIVE Walk(_, _, _)
Walk(doc, current, path) ==
  IF path = <<>> THEN current
  ELSE LET Test(i) == /\ doc[i].parent = current
                      /\ ToLowerCase(doc[i].tagName) = Head(path).tag
           children == Positions(doc, Test)
       IN  IF Head(path).index \in DOMAIN children
           THEN Walk(doc, children[Head(path).index], Tail(path))
           ELSE NoNode

Evaluate(doc, xpath) ==
  IF xpath.form = "//"
  THEN LET Test(i) == doc[i].id # <<>> /\ doc[i].id = xpath.names[1]
           nodes == Positions(doc, Test)
       IN  IF nodes = <<>> THEN NoNode ELSE nodes[1]
  ELSE Walk(doc, 0, xpath.path)

\* PlaybackEngine.findElement on a page: document.querySelector throws a
\* SyntaxError for text that is no CSS selector, as a path is, and the catch
\* around both attempts ends the search
FindElementIn(doc, selector) ==
  IF selector = NoSelector THEN NoNode
  ELSE IF StartsWithSlash(selector) THEN NoNode
       ELSE LET nodes == QuerySelectorAll(doc, selector)
            IN  IF nodes # <<>> THEN nodes[1]
                ELSE IF StartsWithSlash(selector)
                     THEN Evaluate(doc, selector)
                     ELSE NoNode

\* The pages: <html><body> and in it the element under test, alone, after a
\* button of class btn, or in the second of two <div>s whose first holds
\* such a button
TestIds == {NoAttribute, Attribute(<<>>), Attribute(<<"s", "a", "v", "e">>)}

DataIds == {NoAttribute, Attribute(<<"x", ".", "1">>)}

Ids == {<<>>, <<"s", "a", "v", "e">>, <<"1", "a">>, <<"a", ".", "b">>}

Btn == <<"b", "t", "n">>

Big == <<"b", "i", "g">>

ClassLists == {<<>>, <<Btn>>, <<<<"_", "x">>>>, <<Btn, Big>>}

Html == <<"H", "T", "M", "L">>

Body == <<"B", "O", "D", "Y">>

Div == <<"D", "I", "V">>

Button == <<"B", "U", "T", "T", "O", "N">>

Plain(parent, tagName, classList) ==
  Node(parent, tagName, NoAttribute, NoAttribute, <<>>, classList)

Pages ==
  UNION {
    {<<Plain(0, Html, <<>>), Plain(1, Body, <<>>),
       Node(2, Button, testid, dataId, id, classList)>>,
     <<Plain(0, Html, <<>>), Plain(1, Body, <<>>), Plain(2, Button, <<Btn>>),
       Node(2, Button, testid, dataId, id, classList)>>,
     <<Plain(0, Html, <<>>), Plain(1, Body, <<>>), Plain(2, Div, <<>>),
       Plain(3, Button, <<Btn>>), Plain(2, Div, <<>>),
       Node(5, Button, testid, dataId, id, classList)>>} :
    testid \in TestIds, dataId \in DataIds, id \in Ids,
    classList \in ClassLists}

NoResult == SelectorResult(NoSelector, "", 0)

FreshLocator ==
  locator = [doc |-> <<>>, node |-> NoNode, result |-> NoResult,
             found |-> NoNode, resolved |-> FALSE]

\* generateSelector(element) for an element of a page
Generate(doc, node) ==
  /\ locator' = [doc |-> doc, node |-> node,
                 result |-> GenerateSelector(doc, node), found |-> NoNode,
                 resolved |-> FALSE]
  /\ UNCHANGED <<sessionVars, storeVars, playback>>

\* findElement(selector) on the same page, nothing having changed in it
Resolve ==
  /\ locator.node # NoNode
  /\ ~locator.resolved
  /\ locator' = [locator EXCEPT
                   !.found = FindElementIn(locator.doc, locator.result.selector),
                   !.resolved = TRUE]
  /\ UNCHANGED <<sessionVars, storeVars, playback>>

NextLocator ==
  \/ \E doc \in Pages : \E node \in DOMAIN doc : Generate(doc, node)
  \/ Resolve

\* A click's target: its name, whether it is an HTMLInputElement and of
\* which type, whether closest("[data-navio-extension]") finds an ancestor
Target(name, input, type, extension) ==
  [name |-> name, input |-> input, type |-> type, extension |-> extension,
   tagName |-> IF input THEN <<"I", "N", "P", "U", "T">> ELSE Button,
   text |-> IF input THEN <<>> ELSE <<"O", "K">>, placeholder |-> <<>>]

\* an element with the given tag, text content and placeholder
Labelled(target, tagName, text, placeholder) ==
  [target EXCEPT !.tagName = tagName, !.text = text,
                 !.placeholder = placeholder]

\* the characters of an input's type attribute
TypeName ==
  [text |-> <<"t", "e", "x", "t">>,
   password |-> <<"p", "a", "s", "s", "w", "o", "r", "d">>]

ClickWord == <<"C", "l", "i", "c", "k", " ">>

Ellipsis == <<".", ".", ".">>

MAX_LENGTH == 200

\* the cut of an explanation as it would be without the room for the marker
LimitKeepsAll(explanation) ==
  IF Len(explanation) > MAX_LENGTH
  THEN SubSeq(explanation, 1, MAX_LENGTH) \o Ellipsis
  ELSE explanation

\* generateStepExplanation's last statement: the cut to MAX_LENGTH
Limit(explanation) ==
  IF Len(explanation) > MAX_LENGTH
  THEN SubSeq(explanation, 1, MAX_LENGTH - 3) \o Ellipsis
  ELSE explanation

\* recorder.generateStepExplanation(element, getElementText(element))
GenerateStepExplanation(target) ==
  Limit(
    CASE target.tagName = Button ->
           IF target.text # <<>> THEN ClickWord \o target.text
           ELSE ClickWord \o <<"b", "u", "t", "t", "o", "n">>
      [] target.tagName = <<"A">> ->
           IF target.text # <<>> THEN ClickWord \o target.text
           ELSE ClickWord \o <<"l", "i", "n", "k">>
      [] target.input ->
           IF target.placeholder # <<>> THEN ClickWord \o target.placeholder
           ELSE IF target.type # ""
           THEN ClickWord \o TypeName[target.type] \o <<" ", "i", "n", "p", "u", "t">>
           ELSE ClickWord \o <<"i", "n", "p", "u", "t">>
      [] OTHER ->
           IF target.text # <<>> THEN ClickWord \o target.text
           ELSE ClickWord \o ToLowerCase(target.tagName))

PageButton == Target("button", FALSE, "", FALSE)

AllTargets ==
  {PageButton, Target("text", TRUE, "text", FALSE),
   Target("password", TRUE, "password", FALSE),
   Target("panel button", FALSE, "", TRUE),
   Target("panel password", TRUE, "password", TRUE)}

\* ------------------------------------------------------------------ Init
\* a run's bounds and environment: which tabs exist, what the clients send
Limits(nSteps, nCmds, nLoads, nRestarts, cap, tabs, menu) ==
  [steps |-> nSteps, cmds |-> nCmds, loads |-> nLoads, restarts |-> nRestarts,
   cap |-> cap, tabs |-> tabs, menu |-> menu, shots |-> {Shot("ok", SmallImage)},
   targets |-> {PageButton}, writes |-> {TRUE},
   notes |-> {<<"n", "o", "t", "e">>}, timers |-> MaxTimers]

\* the state after the extension was installed: nothing recorded, nothing
\* stored, no content script injected yet
Fresh ==
  /\ recordingSession = Null
  /\ stored = Null
  /\ storageQ = <<>>
  /\ querying = {}
  /\ toBg = {}
  /\ toTab = {}
  /\ fromTab = {}
  /\ resps = {}
  /\ out = {}
  /\ agent = [t \in Tabs |-> FreshRecorder]
  /\ captures = {}
  /\ nextId = 1
  /\ cmds = 0
  /\ loads = 0
  /\ restarts = 0
  /\ FreshStore
  /\ FreshPlayback
  /\ FreshLocator

Init ==
  /\ Fresh
  /\ lim = Limits(MaxSteps, MaxCmds, MaxLoads, MaxRestarts, MaxInFlight, Tabs,
                  ClientTypes)


\* ------------------------------------------------ background: the handlers
\* What one synchronous segment of a handler does: the new in-memory session,
\* the storage operations it issues, the tabs.query it starts, the
\* tabs.sendMessage calls it makes and the responses it returns.
Eff(rs, ops, qy, tt, o) == [rs |-> rs, ops |-> ops, qy |-> qy, tt |-> tt, o |-> o]

Return(r) == Eff(recordingSession, <<>>, {}, {}, {r})

\* chrome.storage.local.set / remove / get, with the handler k it resumes
Op(op, val, k) == [op |-> op, val |-> val, k |-> k]

SendToTab(tabId, h) == [tab |-> tabId, h |-> h]

\* sender.tab?.id || recordingSession?.tabId
SenderOrSessionTab(h) ==
  IF h.from # Popup THEN h.from
  ELSE IF recordingSession # Null THEN recordingSession.tabId ELSE NoTab

\* saveRecordingSession(session): the value is serialised when set is called
SaveRecordingSession(session, k) ==
  IF session # Null THEN Op("set", session, k) ELSE Op("remove", Null, k)

\* loadRecordingSession()
LoadRecordingSession(k) == Op("get", Null, k)

\* START_RECORDING, from the tab id on
StartCreate(h, tabId) ==
  IF tabId = NoTab
  THEN Return(Response(h, FALSE, "No active tab", NoData))
  ELSE LET s == NewSession(tabId)
       IN Eff(s, <<SaveRecordingSession(s, [h EXCEPT !.tabId = tabId])>>, {}, {}, {})

StartRecording(h) ==
  IF h.from # Popup THEN StartCreate(h, h.from)
  ELSE Eff(recordingSession, <<>>, {h}, {}, {})

StartSaved(h) == Eff(recordingSession, <<>>, {}, {SendToTab(h.tabId, h)}, {})

StartForwarded(h, ok) ==
  Return(Response(h, TRUE, "", [state |-> "recording"]))

\* STOP_RECORDING
StopRecording(h) ==
  LET tabId == SenderOrSessionTab(h)
  IN IF tabId = NoTab
     THEN Return(Response(h, FALSE, "No active tab", NoData))
     ELSE IF recordingSession = Null
     THEN Return(Response(h, FALSE, "No active recording session", NoData))
     ELSE Eff(recordingSession, <<>>, {}, {SendToTab(tabId, h)}, {})

StopForwarded(h, ok) ==
  IF recordingSession = Null
  THEN Return(Response(h, FALSE, "TypeError", NoData))
  ELSE Eff(Null,
           <<SaveRecordingSession(Null, [h EXCEPT !.steps = recordingSession.steps])>>,
           {}, {}, {})

StopSaved(h) == Return(Response(h, TRUE, "", [steps |-> h.steps]))

\* variants of the ADD_STEP handler that the ordering and rejection
\* properties must tell apart from the real one
AddStepKeepsOrder(h) ==
  IF recordingSession # Null /\ recordingSession.state = "recording"
  THEN LET s == [recordingSession EXCEPT !.steps = Append(@, h.step),
                   !.currentStepIndex = Len(recordingSession.steps)]
       IN Eff(s, <<SaveRecordingSession(s, h)>>, {}, {}, {})
  ELSE Return(Response(h, FALSE, "No active recording session", NoData))

AddStepCreatesSession(h) ==
  LET base == IF recordingSession = Null THEN NewSession(h.from)
              ELSE recordingSession
  IN IF base.state = "recording"
     THEN LET step == [h.step EXCEPT !.order = Len(base.steps)]
              s == [base EXCEPT !.steps = Append(@, step),
                      !.currentStepIndex = Len(base.steps)]
          IN Eff(s, <<SaveRecordingSession(s, h)>>, {}, {}, {})
     ELSE Return(Response(h, FALSE, "No active recording session", NoData))

AddStepIgnoresState(h) ==
  IF recordingSession # Null
  THEN LET step == [h.step EXCEPT !.order = Len(recordingSession.steps)]
           s == [recordingSession EXCEPT !.steps = Append(@, step),
                   !.currentStepIndex = Len(recordingSession.steps)]
       IN Eff(s, <<SaveRecordingSession(s, h)>>, {}, {}, {})
  ELSE Return(Response(h, FALSE, "No active recording session", NoData))

\* ADD_STEP
AddStep(h) ==
  IF recordingSession # Null /\ recordingSession.state = "recording"
  THEN LET step == [h.step EXCEPT !.order = Len(recordingSession.steps)]
           s == [recordingSession EXCEPT
                   !.steps = Append(@, step),
                   !.currentStepIndex = Len(recordingSession.steps)]
       IN Eff(s, <<SaveRecordingSession(s, h)>>, {}, {}, {})
  ELSE Return(Response(h, FALSE, "No active recording session", NoData))

AddStepSaved(h) == Return(Response(h, TRUE, "", NoData))

\* GET_RECORDING_STATE
IdleState == [isRecording |-> FALSE, stepCount |-> 0, state |-> "idle"]

GetRecordingState(h) ==
  IF recordingSession # Null
  THEN Return(Response(h, TRUE, "",
         [isRecording |-> recordingSession.state = "recording",
          stepCount |-> Len(recordingSession.steps),
          state |-> recordingSession.state,
          tabId |-> recordingSession.tabId]))
  ELSE Eff(recordingSession, <<LoadRecordingSession(h)>>, {}, {}, {})

\* a variant that reports the current step index as the step count
GetLoadedCountsIndex(h, restoredSession) ==
  IF restoredSession # Null
  THEN Eff(restoredSession, <<>>, {}, {},
           {Response(h, TRUE, "",
              [isRecording |-> restoredSession.state = "recording",
               stepCount |-> restoredSession.currentStepIndex,
               state |-> restoredSession.state])})
  ELSE IF h.from # Popup
  THEN Eff(recordingSession, <<>>, {}, {SendToTab(h.from, h)}, {})
  ELSE Return(Response(h, TRUE, "", IdleState))

GetLoaded(h, restoredSession) ==
  IF restoredSession # Null
  THEN Eff(restoredSession, <<>>, {}, {},
           {Response(h, TRUE, "",
              [isRecording |-> restoredSession.state = "recording",
               stepCount |-> Len(restoredSession.steps),
               state |-> restoredSession.state])})
  ELSE IF h.from # Popup
  THEN Eff(recordingSession, <<>>, {}, {SendToTab(h.from, h)}, {})
  ELSE Return(Response(h, TRUE, "", IdleState))

\* the content script's own answer to GET_RECORDING_STATE
ContentRecordingState == [isRecording |-> TRUE, stepCount |-> 0]

GetForwarded(h, ok) ==
  IF ok THEN Return(Response(h, TRUE, "", ContentRecordingState))
  ELSE Return(Response(h, TRUE, "", IdleState))

\* PAUSE_RECORDING / RESUME_RECORDING
PauseResumeForward(h) ==
  LET tabId == SenderOrSessionTab(h)
  IN IF tabId = NoTab
     THEN Return(Response(h, FALSE, "No active tab", NoData))
     ELSE Eff(recordingSession, <<>>, {}, {SendToTab(tabId, h)}, {})

PauseResume(h) ==
  IF recordingSession # Null
  THEN LET s == [recordingSession EXCEPT
                   !.state = IF h.type = "PAUSE_RECORDING" THEN "paused"
                             ELSE "recording"]
       IN Eff(s, <<SaveRecordingSession(s, h)>>, {}, {}, {})
  ELSE PauseResumeForward(h)

PauseResumeForwarded(h, ok) ==
  IF ok
  THEN Return(Response(h, TRUE, "",
         [state |-> IF h.type = "PAUSE_RECORDING" THEN "paused" ELSE "recording"]))
  ELSE Return(Response(h, FALSE, "Content script not ready", NoData))

\* ADD_MANUAL_STEP / UNDO_LAST_STEP
ManualOrUndo(h) ==
  LET tabId == SenderOrSessionTab(h)
  IN IF tabId = NoTab
     THEN Return(Response(h, FALSE, "No active tab", NoData))
     ELSE Eff(recordingSession, <<>>, {}, {SendToTab(tabId, h)}, {})

ManualOrUndoForwarded(h, ok) ==
  IF ~ok
  THEN Return(Response(h, FALSE, "Content script not ready", NoData))
  ELSE IF h.type = "UNDO_LAST_STEP" /\ recordingSession # Null
  THEN LET left == Pop(recordingSession.steps)
           s == [recordingSession EXCEPT
                   !.steps = left,
                   !.currentStepIndex = Max(0, Len(left) - 1)]
       IN Eff(s, <<SaveRecordingSession(s, h)>>, {}, {}, {})
  ELSE Return(Response(h, TRUE, "", NoData))

UndoSaved(h) == Return(Response(h, TRUE, "", NoData))

\* "Restore recording session on startup"
Startup == [type |-> "STARTUP", from |-> Popup, reply |-> FALSE]

StartupLoaded(session) ==
  IF session # Null THEN Eff(session, <<>>, {}, {}, {})
  ELSE Eff(recordingSession, <<>>, {}, {}, {})

\* onMessage: the switch on message.type, up to the handler's first await
OnMessage(h) ==
  CASE h.type = "START_RECORDING" -> StartRecording(h)
    [] h.type = "STOP_RECORDING" -> StopRecording(h)
    [] h.type = "ADD_STEP" -> AddStep(h)
    [] h.type = "GET_RECORDING_STATE" -> GetRecordingState(h)
    [] h.type \in {"PAUSE_RECORDING", "RESUME_RECORDING"} -> PauseResume(h)
    [] h.type \in {"ADD_MANUAL_STEP", "UNDO_LAST_STEP"} -> ManualOrUndo(h)

\* the handler resumed after its storage operation has completed
AfterStorage(h, result) ==
  CASE h.type = "STARTUP" -> StartupLoaded(result)
    [] h.type = "START_RECORDING" -> StartSaved(h)
    [] h.type = "STOP_RECORDING" -> StopSaved(h)
    [] h.type = "ADD_STEP" -> AddStepSaved(h)
    [] h.type = "GET_RECORDING_STATE" -> GetLoaded(h, result)
    [] h.type \in {"PAUSE_RECORDING", "RESUME_RECORDING"} -> PauseResumeForward(h)
    [] h.type = "UNDO_LAST_STEP" -> UndoSaved(h)

\* the handler resumed after chrome.tabs.sendMessage resolved (ok) or threw
AfterSendMessage(h, ok) ==
  CASE h.type = "START_RECORDING" -> StartForwarded(h, ok)
    [] h.type = "STOP_RECORDING" -> StopForwarded(h, ok)
    [] h.type = "GET_RECORDING_STATE" -> GetForwarded(h, ok)
    [] h.type \in {"PAUSE_RECORDING", "RESUME_RECORDING"} -> PauseResumeForwarded(h, ok)
    [] h.type \in {"ADD_MANUAL_STEP", "UNDO_LAST_STEP"} -> ManualOrUndoForwarded(h, ok)

\* the responses that a page agent acts on: checkAndResumeRecording's answer
Awaited(o) ==
  {r \in o : r.reply /\ r.to # Popup /\ r.type = "GET_RECORDING_STATE"}

Apply(e, q) ==
  /\ recordingSession' = e.rs
  /\ storageQ' = q \o e.ops
  /\ querying' = querying \cup e.qy
  /\ toTab' = toTab \cup e.tt
  /\ out' = e.o
  /\ resps' = resps \cup Awaited(e.o)

\* ------------------------------------------------ background: the actions
\* a message reaches the background and its handler runs to its first await
BgReceive(m) ==
  /\ m \in toBg
  /\ toBg' = toBg \ {m}
  /\ Apply(OnMessage(m), storageQ)
  /\ UNCHANGED <<stored, fromTab, agent, captures, nextId, cmds, loads, restarts, lim, storeVars,
                 playback, locator>>

\* chrome.tabs.query({active: true, currentWindow: true}) resolves
QueryDone(h, t) ==
  /\ h \in querying
  /\ LET e == StartCreate(h, t)
     IN /\ recordingSession' = e.rs
        /\ storageQ' = storageQ \o e.ops
        /\ querying' = querying \ {h}
        /\ out' = e.o
  /\ UNCHANGED <<stored, toBg, toTab, fromTab, resps, agent, captures, nextId,
                 cmds, loads, restarts, lim, storeVars,
                 playback, locator>>

\* the value of the storage key after an operation; a set or a remove the
\* storage area rejects leaves the key as it was, and saveRecordingSession
\* catches the rejection
StorageAfter(op, works) ==
  CASE op.op = "set" -> IF works THEN op.val ELSE stored
    [] op.op = "remove" -> IF works THEN Null ELSE stored
    [] op.op = "get" -> stored

\* the oldest storage operation completes and the handler awaiting it resumes
StorageComplete ==
  /\ storageQ # <<>>
  /\ \E works \in lim.writes :
       LET op == Head(storageQ)
       IN /\ stored' = StorageAfter(op, works)
          /\ Apply(AfterStorage(op.k, StorageAfter(op, works)), Tail(storageQ))
  /\ UNCHANGED <<toBg, fromTab, agent, captures, nextId, cmds, loads, restarts, lim, storeVars,
                 playback, locator>>

\* the outcome of a chrome.tabs.sendMessage reaches the awaiting handler
BgFromTab(y) ==
  /\ y \in fromTab
  /\ fromTab' = fromTab \ {y}
  /\ Apply(AfterSendMessage(y.h, y.ok), storageQ)
  /\ UNCHANGED <<stored, toBg, agent, captures, nextId, cmds, loads, restarts, lim, storeVars,
                 playback, locator>>

\* the service worker is stopped when idle and started again by the next
\* event: the in-memory session is lost, the top-level script issues the
\* startup restore
Restart ==
  /\ restarts < lim.restarts
  /\ storageQ = <<>> /\ querying = {} /\ toTab = {} /\ fromTab = {}
  /\ restarts' = restarts + 1
  /\ recordingSession' = Null
  /\ storageQ' = <<LoadRecordingSession(Startup)>>
  /\ out' = {}
  /\ UNCHANGED <<stored, querying, toBg, toTab, fromTab, resps, agent, captures,
                 nextId, cmds, loads, lim, storeVars,
                 playback, locator>>

\* ----------------------------------------------------------- page agents
\* requests under way: messages, suspended handlers, captures, answers
InFlight ==
  Cardinality(toBg) + Cardinality(querying) + Len(storageQ) + Cardinality(toTab)
  + Cardinality(fromTab) + Cardinality(resps) + Cardinality(captures)

\* recorder.addManualStep's step: the explanation is the text it was given
ManualStep(t, explanation) ==
  [id |-> nextId, type |-> "manual", tab |-> t, order |-> 0,
   meta |-> NoScreenshot, explanation |-> explanation]

\* captureClick's step for a click on the target
CapturedStep(t, target) ==
  [id |-> nextId, type |-> "click", tab |-> t, order |-> 0,
   meta |-> NoScreenshot, explanation |-> GenerateStepExplanation(target)]

ClickStep(t) == CapturedStep(t, PageButton)

\* the content script's onMessage switch, applied to its Recorder
ContentOnMessage(r, h) ==
  CASE h.type = "START_RECORDING" -> RecorderStart(r, h.tabId)
    [] h.type = "STOP_RECORDING" -> RecorderStop(r)
    [] h.type = "PAUSE_RECORDING" -> RecorderPause(r)
    [] h.type = "RESUME_RECORDING" -> RecorderResume(r)
    [] OTHER -> r

\* recorder.addManualStep: emits a step only while recording
EmitsManualStep(r, h) == h.type = "ADD_MANUAL_STEP" /\ r.isRecording

\* a chrome.tabs.sendMessage call reaches its tab: the content script handles
\* it, or nobody listens and the call throws
TabDeliver(x) ==
  /\ x \in toTab
  /\ toTab' = toTab \ {x}
  /\ IF agent[x.tab].loaded
     THEN /\ agent' = [agent EXCEPT ![x.tab] = ContentOnMessage(@, x.h)]
          /\ fromTab' = fromTab \cup {[h |-> x.h, ok |-> TRUE]}
          /\ IF EmitsManualStep(agent[x.tab], x.h)
             THEN /\ nextId <= lim.steps
                  /\ nextId' = nextId + 1
                  /\ toBg' = toBg \cup {Msg("ADD_STEP", x.tab,
                                      ManualStep(x.tab, x.h.step.explanation))}
             ELSE UNCHANGED <<nextId, toBg>>
     ELSE /\ fromTab' = fromTab \cup {[h |-> x.h, ok |-> FALSE]}
          /\ UNCHANGED <<agent, nextId, toBg>>
  /\ out' = {}
  /\ UNCHANGED <<recordingSession, stored, storageQ, querying, resps, captures,
                 cmds, loads, restarts, lim, storeVars,
                 playback, locator>>

\* a variant of the load-time check that looks at the Recorder's own flag
CheckAndResumeOwnFlag(r, response) ==
  IF response.success /\ response.data # NoData
     /\ response.data.isRecording
     /\ r.isRecording
  THEN RecorderStart(r, IF "tabId" \in DOMAIN response.data
                        THEN response.data.tabId ELSE NoTab)
  ELSE r

\* checkAndResumeRecording, from the response on
CheckAndResume(r, response) ==
  IF response.success /\ response.data # NoData
     /\ response.data.isRecording
     /\ "state" \in DOMAIN response.data /\ response.data.state = "recording"
  THEN RecorderStart(r, IF "tabId" \in DOMAIN response.data
                        THEN response.data.tabId ELSE NoTab)
  ELSE r

AgentReceive(r) ==
  /\ r \in resps
  /\ resps' = resps \ {r}
  /\ agent' = [agent EXCEPT ![r.to] = CheckAndResume(@, r)]
  /\ out' = {}
  /\ UNCHANGED <<recordingSession, stored, storageQ, querying, toBg, toTab,
                 fromTab, captures, nextId, cmds, loads, restarts, lim, storeVars,
                 playback, locator>>

\* the content script is injected into a page: a fresh Recorder, the message
\* listener, and the load-time state query
Load(t) ==
  /\ ~agent[t].loaded
  /\ loads < lim.loads
  /\ InFlight < lim.cap
  /\ loads' = loads + 1
  /\ agent' = [agent EXCEPT ![t] = [FreshRecorder EXCEPT !.loaded = TRUE]]
  /\ toBg' = toBg \cup {Msg("GET_RECORDING_STATE", t, NoStep)}
  /\ out' = {}
  /\ UNCHANGED <<recordingSession, stored, storageQ, querying, toTab, fromTab,
                 resps, captures, nextId, cmds, restarts, lim, storeVars,
                 playback, locator>>

\* a handler whose sender's page is gone: nobody waits for its answer
Orphan(h, t) == IF h.from = t /\ h.reply THEN [h EXCEPT !.reply = FALSE] ELSE h

\* the page of tab t unloads (navigation, reload, close): its script context
\* is destroyed with everything that was still running in it
Unload(t) ==
  /\ agent[t].loaded
  /\ agent' = [agent EXCEPT ![t] =
                 [FreshRecorder EXCEPT
                    !.attached = HandleBeforeUnload(agent[t]).attached,
                    !.listeners = HandleBeforeUnload(agent[t]).listeners]]
  /\ captures' = {c \in captures : c.tab # t}
  /\ resps' = {r \in resps : r.to # t}
  /\ toBg' = {Orphan(m, t) : m \in toBg}
  /\ querying' = {Orphan(h, t) : h \in querying}
  /\ toTab' = {[x EXCEPT !.h = Orphan(@, t)] : x \in toTab}
  /\ fromTab' = {[y EXCEPT !.h = Orphan(@, t)] : y \in fromTab}
  /\ storageQ' = [i \in 1..Len(storageQ) |->
                    [storageQ[i] EXCEPT !.k = Orphan(@, t)]]
  /\ out' = {}
  /\ UNCHANGED <<recordingSession, stored, nextId, cmds, loads, restarts, lim, storeVars,
                 playback, locator>>

\* the click handler: a qualifying click while recording and not paused
CaptureClick(t, target) ==
  /\ agent[t].attached /\ agent[t].isRecording /\ ~agent[t].isPaused
  /\ nextId <= lim.steps
  /\ InFlight < lim.cap
  /\ nextId' = nextId + 1
  /\ IF agent[t].currentTabId # NoTab
     THEN /\ captures' = captures \cup {CapturedStep(t, target)}
          /\ UNCHANGED toBg
     ELSE /\ toBg' = toBg \cup {Msg("ADD_STEP", t, CapturedStep(t, target))}
          /\ UNCHANGED captures
  /\ out' = {}
  /\ UNCHANGED <<recordingSession, stored, storageQ, querying, toTab, fromTab,
                 resps, agent, cmds, loads, restarts, lim, storeVars,
                 playback, locator>>

Click(t) == CaptureClick(t, PageButton)

\* the click handler as it would be without its password check
IgnoresOnlyExtension(target) == target.extension

\* the click handler's filters: extension UI and password fields
Ignores(target) ==
  \/ target.extension
  \/ target.input /\ target.type = "password"

\* the click handler on any target: an ignored target ends the handler,
\* any other is captured
ClickOn(t, target) ==
  IF Ignores(target)
  THEN /\ agent[t].attached /\ agent[t].isRecording /\ ~agent[t].isPaused
       /\ agent' = [agent EXCEPT ![t].ignored = target.name]
       /\ out' = {}
       /\ UNCHANGED <<recordingSession, stored, storageQ, querying, toBg, toTab,
                      fromTab, resps, captures, nextId, cmds, loads, restarts,
                      lim, storeVars, playback, locator>>
  ELSE CaptureClick(t, target)

\* a variant of captureClick that gives up when the screenshot fails
ShotDoneGivesUp(c, shot) ==
  /\ c \in captures
  /\ captures' = captures \ {c}
  /\ toBg' = IF shot.kind = "ok"
             THEN toBg \cup
                    {Msg("ADD_STEP", c.tab, [c EXCEPT !.meta = ScreenshotData(shot)])}
             ELSE toBg
  /\ out' = {}
  /\ UNCHANGED <<recordingSession, stored, storageQ, querying, toTab, fromTab,
                 resps, agent, nextId, cmds, loads, restarts, lim, storeVars,
                 playback, locator>>

\* captureClick resumes after its screenshot round trip and emits the step
ShotDone(c, shot) ==
  /\ c \in captures
  /\ captures' = captures \ {c}
  /\ toBg' = toBg \cup
       {Msg("ADD_STEP", c.tab, [c EXCEPT !.meta = ScreenshotData(shot)])}
  /\ out' = {}
  /\ UNCHANGED <<recordingSession, stored, storageQ, querying, toTab, fromTab,
                 resps, agent, nextId, cmds, loads, restarts, lim, storeVars,
                 playback, locator>>

\* ---------------------------------------------------------------- clients
\* the popup (or another extension page) sends a command
\* the step a client's message carries: a manual step's text, or none
ClientStep(type, note) ==
  IF type = "ADD_MANUAL_STEP" THEN [id |-> 0, explanation |-> note] ELSE NoStep

ClientSend(type) ==
  /\ cmds < lim.cmds
  /\ InFlight < lim.cap
  /\ cmds' = cmds + 1
  /\ \E note \in lim.notes : toBg' = toBg \cup {Msg(type, Popup, ClientStep(type, note))}
  /\ out' = {}
  /\ UNCHANGED <<recordingSession, stored, storageQ, querying, toTab, fromTab,
                 resps, agent, captures, nextId, loads, restarts, lim, storeVars,
                 playback, locator>>

\* ------------------------------------------------------------------ Next
\* everything but a restart of the background
Running ==
  \/ \E m \in toBg : BgReceive(m)
  \/ \E h \in querying, t \in lim.tabs \cup {NoTab} : QueryDone(h, t)
  \/ StorageComplete
  \/ \E y \in fromTab : BgFromTab(y)
  \/ \E x \in toTab : TabDeliver(x)
  \/ \E r \in resps : AgentReceive(r)
  \/ \E t \in lim.tabs : Load(t)
  \/ \E t \in lim.tabs : Unload(t)
  \/ \E t \in lim.tabs, target \in lim.targets : ClickOn(t, target)
  \/ \E c \in captures, shot \in lim.shots : ShotDone(c, shot)
  \/ \E type \in lim.menu : ClientSend(type)

Next == Running \/ Restart

\* the whole system: two tabs, every command, a restart
Spec == Init /\ [][Next]_vars

\* ------------------------------------------------------- SpecOrder
\* One tab, no restart: the clients start, stop, pause, resume, undo and
\* query while the page agent captures steps, several requests at once.
OrderSteps == 2
OrderCmds == 2
OrderLoads == 1
OrderInFlight == 2

OrderMenu ==
  {"START_RECORDING", "STOP_RECORDING", "PAUSE_RECORDING", "RESUME_RECORDING",
   "UNDO_LAST_STEP", "GET_RECORDING_STATE"}

InitOrder ==
  /\ Fresh
  /\ lim = Limits(OrderSteps, OrderCmds, OrderLoads, 0, OrderInFlight, {1},
                  OrderMenu)

SpecOrder == InitOrder /\ [][Running]_vars

\* ------------------------------------------------------- SpecResilience
\* The resilience scenario: a session is started, steps are added, the
\* background restarts, the state is queried.
ResSteps == 3
ResCmds == 2
ResLoads == 1
ResRestarts == 1
ResInFlight == 1

ResMenu == {"START_RECORDING", "GET_RECORDING_STATE"}

InitResilience ==
  /\ Fresh
  /\ lim = Limits(ResSteps, ResCmds, ResLoads, ResRestarts, ResInFlight, {1},
                  ResMenu)

SpecResilience == InitResilience /\ [][Next]_vars

\* ------------------------------------------------------- SpecLive
\* Navigation during a recording: a session is started for the tab, the
\* page unloads and loads again, the user clicks.  Messages, storage
\* operations and answers are eventually delivered.
LiveSteps == 1
LiveCmds == 2
LiveLoads == 2
LiveInFlight == 2

LiveMenu == {"START_RECORDING", "STOP_RECORDING"}

InitLive ==
  /\ Fresh
  /\ lim = Limits(LiveSteps, LiveCmds, LiveLoads, 0, LiveInFlight, {1},
                  LiveMenu)

Delivery ==
  /\ WF_vars(\E m \in toBg : BgReceive(m))
  /\ WF_vars(\E h \in querying, t \in lim.tabs \cup {NoTab} : QueryDone(h, t))
  /\ WF_vars(StorageComplete)
  /\ WF_vars(\E y \in fromTab : BgFromTab(y))
  /\ WF_vars(\E x \in toTab : TabDeliver(x))
  /\ WF_vars(\E r \in resps : AgentReceive(r))
  /\ WF_vars(\E c \in captures, shot \in lim.shots : ShotDone(c, shot))

SpecLive == InitLive /\ [][Running]_vars /\ Delivery

\* ------------------------------------------------------- SpecStale
\* One tab, no restart: a session is started, stopped and started again
\* while a click captured under the first session is still on its way.
StaleSteps == 1
StaleCmds == 3
StaleLoads == 1
StaleInFlight == 2

InitStale ==
  /\ Fresh
  /\ lim = Limits(StaleSteps, StaleCmds, StaleLoads, 0, StaleInFlight, {1},
                  LiveMenu)

SpecStale == InitStale /\ [][Running]_vars

\* ------------------------------------------------------- SpecShot
\* One tab, a session, a restart: the user clicks and the screenshot of
\* the click succeeds, or fails in one of the three ways, or is skipped
\* for want of a tab id.
ShotSteps == 1
ShotCmds == 1
ShotLoads == 2
ShotRestarts == 1
ShotInFlight == 2

FailedShots == {Shot(kind, 0) : kind \in {"failure", "threw", "undecodable"}}

AllShots == {Shot("ok", SmallImage)} \cup FailedShots

InitShot ==
  /\ Fresh
  /\ lim = [Limits(ShotSteps, ShotCmds, ShotLoads, ShotRestarts, ShotInFlight,
                   {1}, {"START_RECORDING"}) EXCEPT !.shots = AllShots]

SpecShot == InitShot /\ [][Next]_vars

\* ------------------------------------------------------- SpecRouting
\* One tab, a session: the screenshots captured have sizes around the
\* routing threshold.
RouteSteps == 2
RouteCmds == 1
RouteLoads == 1
RouteInFlight == 2

ImageSizes ==
  {FULL_SIZE_THRESHOLD_KB * 1024 - 1024, FULL_SIZE_THRESHOLD_KB * 1024 - 1,
   FULL_SIZE_THRESHOLD_KB * 1024, FULL_SIZE_THRESHOLD_KB * 1024 + 1024}

InitRouting ==
  /\ Fresh
  /\ lim = [Limits(RouteSteps, RouteCmds, RouteLoads, 0, RouteInFlight,
                   {1}, {"START_RECORDING"})
              EXCEPT !.shots = {Shot("ok", size) : size \in ImageSizes}]

SpecRouting == InitRouting /\ [][Running]_vars

\* ------------------------------------------------------- SpecStore
\* No recording: flows are saved, imported and deleted, screenshots stored,
\* and the popup's save dialog is used; storage writes and the blob store
\* may fail.
InitStore ==
  /\ Fresh
  /\ lim = Limits(0, 0, 0, 0, 0, {1}, {})

SpecStore == InitStore /\ [][NextStore]_vars

\* ------------------------------------------------------- SpecPlayback
\* No recording: a page whose elements come and go, and a playback engine
\* driven through its methods and the keyboard.
InitPlayback ==
  /\ Fresh
  /\ lim = Limits(0, 0, 0, 0, 0, {1}, {})

SpecPlayback == InitPlayback /\ [][NextPlayback]_vars

\* ------------------------------------------------------ SpecOverlap
\* No recording: a playback engine whose next() is called again while an
\* earlier call is in its 300 ms wait, and whose stop() and start() are
\* called while calls wait, on a page whose elements come and go.
OverlapTimers == 2

InitOverlap ==
  /\ Fresh
  /\ lim = [Limits(0, 0, 0, 0, 0, {1}, {}) EXCEPT !.timers = OverlapTimers]

NextOverlap ==
  \/ \E flow \in PlayFlows : PlayStart(flow)
  \/ PlayStop
  \/ PlayNext
  \/ PlayNextResumes
  \/ \E selector \in DOMAIN Elements : DomChange(selector)

SpecOverlap == InitOverlap /\ [][NextOverlap]_vars

\* ------------------------------------------------------- SpecTargets
\* One tab, a session: the user clicks on page elements, on password
\* fields and on the extension's own panel.
TargetSteps == 1
TargetCmds == 2
TargetLoads == 1
TargetInFlight == 2

InitTargets ==
  /\ Fresh
  /\ lim = [Limits(TargetSteps, TargetCmds, TargetLoads, 0, TargetInFlight,
                   {1}, {"START_RECORDING", "PAUSE_RECORDING"})
              EXCEPT !.targets = AllTargets]

SpecTargets == InitTargets /\ [][Running]_vars

\* ------------------------------------------------------- SpecStates
\* One tab, no restart: the popup starts, pauses, resumes and stops, in any
\* order, while the user clicks.
StateSteps == 1
StateCmds == 3
StateLoads == 1
StateInFlight == 2

StateMenu ==
  {"START_RECORDING", "STOP_RECORDING", "PAUSE_RECORDING", "RESUME_RECORDING"}

InitStates ==
  /\ Fresh
  /\ lim = Limits(StateSteps, StateCmds, StateLoads, 0, StateInFlight, {1},
                  StateMenu)

SpecStates == InitStates /\ [][Running]_vars

\* ------------------------------------------------------- SpecPersist
\* One tab, no restart: a session is started and stopped, the user clicks,
\* and the storage area may reject a write.
PersistSteps == 1
PersistCmds == 2
PersistLoads == 1
PersistInFlight == 2

InitPersist ==
  /\ Fresh
  /\ lim = [Limits(PersistSteps, PersistCmds, PersistLoads, 0,
                   PersistInFlight, {1}, LiveMenu)
              EXCEPT !.writes = {TRUE, FALSE}]

SpecPersist == InitPersist /\ [][Running]_vars

\* ------------------------------------------------------ SpecExplain
\* One tab, no restart: the user clicks elements whose texts are short, as
\* long as an explanation may be, or longer, and adds manual steps whose
\* texts are empty, short or long.
ExplainSteps == 2
ExplainCmds == 2
ExplainLoads == 1
ExplainInFlight == 2

Anchor == <<"A">>

ExplainTargets ==
  {PageButton,
   Labelled(PageButton, Button, <<>>, <<>>),
   Labelled(PageButton, Button, Text(MAX_LENGTH - 6), <<>>),
   Labelled(PageButton, Button, Text(MAX_LENGTH - 5), <<>>),
   Labelled(PageButton, Anchor, <<>>, <<>>),
   Labelled(PageButton, Div, <<>>, <<>>),
   Labelled(PageButton, Div, Text(MAX_LENGTH + 50), <<>>),
   Target("text", TRUE, "text", FALSE),
   Labelled(Target("text", TRUE, "text", FALSE), <<"I", "N", "P", "U", "T">>,
            <<>>, Text(MAX_LENGTH))}

ExplainNotes == {<<>>, Text(1), Text(MAX_LENGTH), Text(MAX_LENGTH + 1)}

InitExplain ==
  /\ Fresh
  /\ lim = [Limits(ExplainSteps, ExplainCmds, ExplainLoads, 0, ExplainInFlight,
                   {1}, {"START_RECORDING", "ADD_MANUAL_STEP"})
              EXCEPT !.targets = ExplainTargets, !.notes = ExplainNotes]

SpecExplain == InitExplain /\ [][Running]_vars

\* ----------------------------------------------------- SpecNavigate
\* One tab, no restart, one request at a time: the popup starts, pauses,
\* resumes and adds manual steps while the tab navigates from one page to
\* the next.
NavigateSteps == 1
NavigateCmds == 3
NavigateLoads == 2
NavigateInFlight == 1

NavigateMenu ==
  {"START_RECORDING", "PAUSE_RECORDING", "RESUME_RECORDING", "ADD_MANUAL_STEP"}

InitNavigate ==
  /\ Fresh
  /\ lim = Limits(NavigateSteps, NavigateCmds, NavigateLoads, 0,
                  NavigateInFlight, {1}, NavigateMenu)

SpecNavigate == InitNavigate /\ [][Running]_vars

\* ------------------------------------------------------ SpecPolling
\* One tab, one restart of the background: a session is started and
\* stopped while the popup polls the recording state.
PollSteps == 1
PollCmds == 3
PollLoads == 1
PollRestarts == 1
PollInFlight == 2

PollMenu == {"START_RECORDING", "STOP_RECORDING", "GET_RECORDING_STATE"}

InitPolling ==
  /\ Fresh
  /\ lim = Limits(PollSteps, PollCmds, PollLoads, PollRestarts, PollInFlight,
                  {1}, PollMenu)

SpecPolling == InitPolling /\ [][Next]_vars

\* Selectors generated for the elements of the pages and resolved on them.
InitLocator ==
  /\ Fresh
  /\ lim = Limits(0, 0, 0, 0, 0, {1}, {})

SpecLocator == InitLocator /\ [][NextLocator]_vars

\* ================================================================ claims
IsAddStep(m) == m.type = "ADD_STEP"

Rejected(m) == Response(m, FALSE, "No active recording session", NoData)

\* ---------------------------------------------------------------- C1
OrderedSteps(steps) == \A i \in 1..Len(steps) : steps[i].order = i - 1

\* the ADD_STEP handlers suspended at their persistence write
AddStepsSaving ==
  {i \in 1..Len(storageQ) : storageQ[i].op = "set" /\ IsAddStep(storageQ[i].k)}

\* C1: the i-th element of session.steps (counted from 0) always has
\* order = i: the accepted steps carry exactly the orders 0..n-1, without
\* duplicate or gap, however ADD_STEP, UNDO_LAST_STEP, PAUSE, RESUME and
\* GET_RECORDING_STATE handlers interleave.
C1_OrderingInvariant ==
  recordingSession # Null => OrderedSteps(recordingSession.steps)

\* two ADD_STEP handlers are suspended at their writes at once, both accepted
C1_Witness ==
  /\ Cardinality(AddStepsSaving) >= 2
  /\ recordingSession # Null
  /\ Len(recordingSession.steps) >= 2

\* ---------------------------------------------------------------- C2
\* a GET_RECORDING_STATE answer reconstructed from persisted storage
Restored(r) ==
  /\ r.type = "GET_RECORDING_STATE" /\ r.success
  /\ "state" \in DOMAIN r.data /\ r.data.state # "idle"
  /\ "tabId" \notin DOMAIN r.data

\* C2: an ADD_STEP is acknowledged only once its step is persisted, and a
\* GET_RECORDING_STATE that finds no in-memory session (after a restart)
\* reports the persisted session: isRecording = true, state = recording,
\* stepCount = the number of persisted steps; the in-memory session then
\* equals the persisted one.
C2_ResilienceRoundTrip ==
  \A r \in out :
    /\ (IsAddStep(r) /\ r.success) =>
         /\ stored # Null
         /\ \E i \in 1..Len(stored.steps) : stored.steps[i].id = r.step.id
    /\ Restored(r) =>
         /\ stored # Null
         /\ recordingSession = stored
         /\ r.data.isRecording
         /\ r.data.state = "recording"
         /\ r.data.stepCount = Len(stored.steps)

\* after a restart, the answer from storage reports three steps
C2_Witness ==
  /\ restarts > 0
  /\ \E r \in out : Restored(r) /\ r.data.isRecording /\ r.data.stepCount = 3

\* ---------------------------------------------------------------- C3
\* the session the manager is responsible for: the one in memory, or the
\* persisted one while the memory of a restarted process is still empty
ActiveSession == IF recordingSession # Null THEN recordingSession ELSE stored

IsStop(m) == m.type = "STOP_RECORDING"

\* C3: a STOP_RECORDING sent while a session is active is never refused and
\* returns success with exactly the accumulated steps; once it has returned
\* success both the in-memory and the persisted session are absent.
C3_StopReturnsAndClears ==
  /\ [](\A r \in out :
          (IsStop(r) /\ r.success) => recordingSession = Null /\ stored = Null)
  /\ [][/\ \A m \in toBg :
             (IsStop(m) /\ ActiveSession # Null /\ BgReceive(m)) =>
               \A r \in out' : r.success
        /\ \A y \in fromTab :
             (IsStop(y.h) /\ recordingSession # Null /\ BgFromTab(y)) =>
               /\ recordingSession' = Null
               /\ \E i \in 1..Len(storageQ') :
                    /\ storageQ'[i].op = "remove"
                    /\ storageQ'[i].k.steps = recordingSession.steps]_vars

\* ---------------------------------------------------------------- C4
\* C4: a START_RECORDING that resolves its tab while a session exists for a
\* different tab does not replace that session: the in-memory session is
\* left as it is and no write of the persisted session is issued.
C4_StartKeepsExistingSession ==
  [][\A h \in querying : \A t \in Tabs :
       (/\ h.type = "START_RECORDING"
        /\ recordingSession # Null
        /\ recordingSession.tabId # t
        /\ QueryDone(h, t)) =>
         /\ recordingSession' = recordingSession
         /\ storageQ' = storageQ]_vars

\* ---------------------------------------------------------------- C5
\* C5: an ADD_STEP handled while no session exists returns success = false
\* with an error, leaves the in-memory session absent and issues no write
\* of the persisted session.
C5_NoSessionRejection ==
  [][\A m \in toBg :
       (IsAddStep(m) /\ recordingSession = Null /\ BgReceive(m)) =>
         /\ out' = {Rejected(m)}
         /\ recordingSession' = Null
         /\ storageQ' = storageQ
         /\ stored' = stored]_vars

\* an ADD_STEP has just been rejected and there is no session anywhere
C5_Witness ==
  /\ \E r \in out : IsAddStep(r) /\ ~r.success
  /\ recordingSession = Null
  /\ stored = Null
  /\ storageQ = <<>>

\* ---------------------------------------------------------------- C6
StepCount(session) == IF session = Null THEN 0 ELSE Len(session.steps)

\* C6: an ADD_STEP handled while the session is paused is rejected and
\* leaves the session, in memory and persisted, unchanged; the session's
\* steps grow only by an ADD_STEP handled while the state is recording.
C6_OnlyWhileRecording ==
  [][/\ \A m \in toBg :
          (/\ IsAddStep(m)
           /\ recordingSession # Null
           /\ recordingSession.state = "paused"
           /\ BgReceive(m)) =>
            /\ out' = {Rejected(m)}
            /\ recordingSession' = recordingSession
            /\ storageQ' = storageQ
            /\ stored' = stored
     /\ StepCount(recordingSession') > StepCount(recordingSession) =>
          \E m \in toBg :
            /\ IsAddStep(m)
            /\ BgReceive(m)
            /\ recordingSession # Null
            /\ recordingSession.state = "recording"]_vars

\* an ADD_STEP has just been rejected by a paused session holding a step
C6_Witness ==
  /\ \E r \in out : IsAddStep(r) /\ ~r.success
  /\ recordingSession # Null
  /\ recordingSession.state = "paused"
  /\ Len(recordingSession.steps) >= 1

\* ---------------------------------------------------------------- C7
IsGet(m) == m.type = "GET_RECORDING_STATE"

\* C7: while neither an in-memory nor a persisted session exists, every
\* answer to GET_RECORDING_STATE reports isRecording = false and
\* stepCount = 0, whoever asked.
C7_IdleDefault ==
  (recordingSession = Null /\ stored = Null /\ storageQ = <<>>) =>
    \A r \in out :
      IsGet(r) => (r.success /\ ~r.data.isRecording /\ r.data.stepCount = 0)

\* ---------------------------------------------------------------- C8
\* the startup restore of a restarted process has not resolved yet
StartupPending ==
  \E i \in 1..Len(storageQ) : storageQ[i].k.type = "STARTUP"

\* C8: after a restart with a persisted recording session, an ADD_STEP
\* handled before the startup restore has resolved is accepted and its step
\* gets order = the number of persisted steps.
C8_AddStepAfterRestart ==
  [][\A m \in toBg :
       (/\ IsAddStep(m)
        /\ StartupPending
        /\ recordingSession = Null
        /\ stored # Null
        /\ stored.state = "recording"
        /\ BgReceive(m)) =>
         /\ recordingSession' # Null
         /\ Len(recordingSession'.steps) = Len(stored.steps) + 1
         /\ recordingSession'.steps[Len(stored.steps) + 1] =
              [m.step EXCEPT !.order = Len(stored.steps)]]_vars

\* ---------------------------------------------------------------- C9
\* the load-time GET_RECORDING_STATE of the page in tab t is under way
IsCheck(h, t) == IsGet(h) /\ h.from = t /\ h.reply

Checking(t) ==
  \/ \E m \in toBg : IsCheck(m, t)
  \/ \E i \in 1..Len(storageQ) : IsCheck(storageQ[i].k, t)
  \/ \E x \in toTab : IsCheck(x.h, t)
  \/ \E y \in fromTab : IsCheck(y.h, t)
  \/ \E r \in resps : IsGet(r) /\ r.to = t /\ r.reply

RecordingFor(t) ==
  /\ recordingSession # Null
  /\ recordingSession.state = "recording"
  /\ recordingSession.tabId = t

C10_TabPinning ==
  /\ [](recordingSession # Null =>
          \A i \in 1..Len(recordingSession.steps) :
            recordingSession.steps[i].tab = recordingSession.tabId)
  /\ [][\A r \in resps :
          (AgentReceive(r) /\ agent'[r.to].attached) =>
            (ActiveSession # Null /\ ActiveSession.tabId = r.to)]_vars

\* ---------------------------------------------------------------- C11
\* the click of this step was made before the session was created
Stale(step, session) == step.id < session.startTime

\* C11: no step whose click was made before the session was created (a
\* step captured under an earlier, stopped session and still in flight)
\* is in the session's steps, in memory or persisted.
C11_StaleStepIsolation ==
  /\ recordingSession # Null =>
       \A i \in 1..Len(recordingSession.steps) :
         ~Stale(recordingSession.steps[i], recordingSession)
  /\ stored # Null =>
       \A i \in 1..Len(stored.steps) : ~Stale(stored.steps[i], stored)

\* ---------------------------------------------------------------- C12
\* the ADD_STEP messages on their way that carry the step of click id
Emitted(id) == {m \in toBg : IsAddStep(m) /\ m.step.id = id}

\* C12: a click whose screenshot request fails, throws or yields an image
\* that cannot be processed, and a click made while no tab id is known,
\* still emits exactly one step, and that step carries no screenshot data;
\* whenever a capture ends while its page lives, its step is emitted, and
\* no click has both a capture in progress and a step emitted.
C12_ScreenshotFailureKeepsStep ==
  /\ [](\A c \in captures : Emitted(c.id) = {})
  /\ [][/\ \A c \in captures : \A shot \in AllShots :
             (shot.kind # "ok" /\ ShotDone(c, shot)) =>
               toBg' = toBg \cup
                 {Msg("ADD_STEP", c.tab, [c EXCEPT !.meta = NoScreenshot])}
        /\ \A c \in captures :
             (c \notin captures' /\ agent'[c.tab].loaded) =>
               Cardinality({m \in toBg' \ toBg : IsAddStep(m)}) = 1
               /\ Cardinality(Emitted(c.id)') = 1
        /\ \A t \in Tabs :
             (agent[t].currentTabId = NoTab /\ Click(t)) =>
               toBg' = toBg \cup {Msg("ADD_STEP", t, ClickStep(t))}]_vars

\* a click whose screenshot failed has emitted its step without screenshot
C12_Witness ==
  /\ restarts = 0
  /\ \E m \in toBg :
       /\ IsAddStep(m)
       /\ m.step.meta = NoScreenshot
       /\ agent[m.from].loaded
       /\ agent[m.from].currentTabId # NoTab

\* ---------------------------------------------------------------- C14
Populated(field) == field # Absent /\ field # ""

\* C14: a step whose full-resolution image is below 200KB is recorded
\* with screenshotIndexedDB = false and screenshotFull populated; one
\* whose image is 200KB or more is recorded with screenshotIndexedDB =
\* true and screenshotFull absent or empty; the thumbnail is on the step
\* in both cases.
C14_RoutingBoundary ==
  [][\A c \in captures : \A shot \in lim.shots :
       (shot.kind = "ok" /\ ShotDone(c, shot)) =>
         \A m \in Emitted(c.id)' :
           /\ Populated(m.step.meta.screenshotThumb)
           /\ shot.size < 200 * 1024 =>
                /\ m.step.meta.screenshotIndexedDB = FALSE
                /\ Populated(m.step.meta.screenshotFull)
           /\ shot.size >= 200 * 1024 =>
                /\ m.step.meta.screenshotIndexedDB = TRUE
                /\ ~Populated(m.step.meta.screenshotFull)]_vars

\* ---------------------------------------------------------------- C13
\* the flow store holds the flow: its id, its name, its steps in order
Persisted(list, flow) ==
  \E i \in DOMAIN list :
    /\ list[i].id = flow.id
    /\ list[i].name = flow.name
    /\ Len(list[i].steps) = Len(flow.steps)
    /\ \A k \in DOMAIN flow.steps : list[i].steps[k].id = flow.steps[k].id

\* C13: the popup reports a save as successful only if the flow store
\* then holds a flow with the name given and exactly the steps returned
\* by the recording.
C13_EndToEndFinalization ==
  [][(toast' # toast /\ toast'.kind = "success") =>
       Persisted(flows', toast'.flow)]_vars

\* ---------------------------------------------------------------- C15
BlobsOf(flowId) == {b \in blobs : b.flowId = flowId}

\* C15: DELETE_FLOW: once the flow-store deletion succeeded the handler
\* deletes the flow's blobs, and none remains when the blob store works;
\* when the cleanup fails the response is success all the same and the
\* flow list is not touched again; when the flow-store deletion fails the
\* response is failure and no blob is deleted.
C15_DeleteFlowCascade ==
  [][\A c \in calls :
       /\ \A works \in BOOLEAN :
            DeleteScreenshots(c, works) =>
              /\ answer' = {Answer("DELETE_FLOW", c.flowId, TRUE)}
              /\ flows' = flows
              /\ works => BlobsOf(c.flowId)' = {}
              /\ ~works => blobs' = blobs
       /\ (c.kind = "DELETE_FLOW" /\ WriteFlows(c, TRUE)) =>
            /\ \A i \in DOMAIN flows' : flows'[i].id # c.flowId
            /\ \E d \in calls' :
                 d.kind = "DELETE_FLOW" /\ d.flowId = c.flowId /\ d.pc = "screenshots"
       /\ (c.kind = "DELETE_FLOW" /\ WriteFlows(c, FALSE)) =>
            /\ answer' = {Answer("DELETE_FLOW", c.flowId, FALSE)}
            /\ blobs' = blobs /\ flows' = flows
            /\ calls' = calls \ {c}]_vars

C15_Witness ==
  \E c \in calls :
    /\ c.kind = "DELETE_FLOW" /\ c.pc = "screenshots"
    /\ BlobsOf(c.flowId) # {}

\* ---------------------------------------------------------------- C16
\* the bounds the schema puts on a flow, spelled out
WithinBounds(flow) ==
  /\ Len(flow.name) \in 1..100
  /\ \A i \in DOMAIN flow.steps :
       /\ Len(flow.steps[i].explanation) \in 1..200
       /\ flow.steps[i].missing = {}
       /\ flow.steps[i].type \in StepTypes

\* C16: saveFlow on a flow that fails validation returns false at once and
\* leaves the stored list alone; IMPORT_FLOW on invalid JSON or an invalid
\* flow answers failure and writes nothing; every flow in the store is
\* within the schema's bounds.
C16_RejectedBeforePersistence ==
  /\ [](\A i \in DOMAIN flows : WithinBounds(flows[i]))
  /\ [][/\ \A flow \in FlowInputs :
             (~FlowSchema(flow) /\ SaveFlowRequest(flow)) =>
               /\ answer' = {Answer("SAVE_FLOW", flow.id, FALSE)}
               /\ flows' = flows /\ calls' = calls
        /\ \A json \in JsonInputs :
             ((json.value = Null \/ ~FlowSchema(json.value))
              /\ ImportFlowRequest(json)) =>
               /\ answer' = {Answer("IMPORT_FLOW", 0, FALSE)}
               /\ flows' = flows /\ calls' = calls]_vars

C16_Witness ==
  /\ answer = {Answer("IMPORT_FLOW", 0, FALSE)}
  /\ flows # <<>>

\* ---------------------------------------------------------------- C17
\* C17: every step of every stored flow has an http or https url.
C17_PersistedUrlsAreWeb ==
  \A i \in DOMAIN flows : \A k \in DOMAIN flows[i].steps :
    flows[i].steps[k].url.protocol \in {"http:", "https:"}

\* ---------------------------------------------------------------- C18
TornDown(p) ==
  /\ ~p.isPlaying /\ p.flow = Null /\ p.currentStepIndex = 0
  /\ p.highlight = NoElement /\ p.tooltip = NoElement
  /\ ~p.mutationObserver /\ ~p.keyboardHandler
  /\ p.highlights = 0 /\ p.tooltips = 0 /\ p.observers = 0 /\ p.keydown = 0

\* C18: stop(), from any playback state, leaves the engine not playing,
\* without flow, at cursor 0, with no highlight, tooltip, observer or
\* keyboard listener on the page; a second stop() in a row changes nothing.
C18_StopIdempotentTeardown ==
  /\ [](TornDown(Stop(playback)))
  /\ [][(PlayStop \/ KeyDown("Escape")) =>
          /\ TornDown(playback')
          /\ playback.stops >= 1 =>
               playback' = [playback EXCEPT !.stops = @ + 1]]_vars

C18_Witness ==
  /\ playback.stops = 2
  /\ playback.timers > 0
  /\ TornDown(playback)

\* ---------------------------------------------------------------- C19
\* C19: goToStep(i) on an in-range step whose selector resolves to no
\* element leaves no overlay, signals onElementNotFound, throws nothing
\* and keeps the playback active on its flow at cursor i.
C19_ElementNotFoundNonFatal ==
  [][\A index \in 0..2 :
       (/\ playback.flow # Null
        /\ index < Len(playback.flow.steps)
        /\ FindElement(playback, playback.flow.steps[index + 1].selector)
             = NoElement
        /\ PlayGoToStep(index)) =>
         /\ ~playback'.threw
         /\ playback'.highlights = 0 /\ playback'.tooltips = 0
         /\ playback'.events =
              <<(<<"onElementNotFound", playback.flow.steps[index + 1].id>>)>>
         /\ playback'.isPlaying
         /\ playback'.flow = playback.flow
         /\ playback'.currentStepIndex = index]_vars

\* ---------------------------------------------------------------- C20
\* a button whose own text or aria-label names a denylisted verb, in any case
SaysDangerous(element) ==
  /\ element.tag = "button"
  /\ \E keyword \in dangerousKeywords :
       \/ Includes(ToLowerCase(element.textContent), keyword)
       \/ Includes(ToLowerCase(element.ariaLabel), keyword)

\* the click step under the cursor and the element it resolves to
AtDangerousClick(p) ==
  /\ p.flow # Null
  /\ p.currentStepIndex < Len(p.flow.steps)
  /\ LET step == p.flow.steps[p.currentStepIndex + 1]
     IN /\ step.type = "click"
        /\ FindElement(p, step.selector) # NoElement
        /\ SaysDangerous(Elements[step.selector])

\* C20: next() on a click step whose element is a button saying a
\* denylisted verb never clicks it and fires no onActionPerformed.
C20_DangerousClickGuard ==
  [][((PlayNext \/ KeyDown("ArrowRight")) /\ AtDangerousClick(playback)) =>
       /\ playback'.clicked = {}
       /\ \A i \in DOMAIN playback'.events :
            playback'.events[i][1] # "onActionPerformed"]_vars

C20_Witness ==
  /\ playback.call = "next"
  /\ AtDangerousClick(playback)
  /\ playback.timers > 0

\* ---------------------------------------------------------------- C21
\* a password input field, or a node inside an extension-owned overlay
Secret(target) ==
  \/ target.input /\ target.type = "password"
  \/ target.extension

\* C21: while recording, a click on a password field or inside the
\* extension's own UI produces no step: no screenshot request, no ADD_STEP
\* message, and the session's steps stay as they are.
C21_CredentialsNeverCaptured ==
  [][\A t \in lim.tabs : \A target \in lim.targets :
       (Secret(target) /\ ClickOn(t, target)) =>
         /\ captures' = captures
         /\ toBg' = toBg
         /\ nextId' = nextId
         /\ recordingSession' = recordingSession
         /\ stored' = stored /\ storageQ' = storageQ]_vars

C21_Witness ==
  \E t \in lim.tabs :
    /\ agent[t].ignored = "password"
    /\ agent[t].isRecording /\ ~agent[t].isPaused
    /\ recordingSession # Null

\* The element generateSelector was last applied to
Generated == locator.node # NoNode

Subject == locator.doc[locator.node]

HasDataAttribute(element) ==
  \/ element.testid.present /\ element.testid.value # <<>>
  \/ element.dataId.present /\ element.dataId.value # <<>>

HasValidId(element) ==
  element.id # <<>> /\ IsValidId(EscapeSelector(element.id))

HasUsableClass(element) ==
  \E c \in DOMAIN element.classList :
    ~StartsWithUnderscore(element.classList[c])

Preferred(element) ==
  IF HasDataAttribute(element) THEN SelectorResult(NoSelector, "data-attribute", 100)
  ELSE IF HasValidId(element) THEN SelectorResult(NoSelector, "id", 80)
  ELSE IF HasUsableClass(element) THEN SelectorResult(NoSelector, "class", 60)
  ELSE SelectorResult(NoSelector, "xpath", 20)

\* C22 as stated: generateSelector gives the data-attribute form for every
\* element that has a data-testid attribute, whatever its id and classes.
C22_AnyTestIdWins ==
  Generated /\ Subject.testid.present
    => locator.result.type = "data-attribute"

\* C22: generateSelector always returns a selector, the one of the highest
\* priority among data attribute (100), valid id (80), class (60) and path
\* (20) that the element offers; for every element whose data-testid
\* attribute has a non-empty value it is [data-testid="value"], whatever the
\* element's id and classes.
C22_SelectorPriority ==
  Generated =>
    /\ locator.result.selector # NoSelector
    /\ locator.result.type = Preferred(Subject).type
    /\ locator.result.score = Preferred(Subject).score
    /\ Subject.testid.present /\ Subject.testid.value # <<>>
         => locator.result.selector =
              AttributeSelector("data-testid",
                                EscapeSelector(Subject.testid.value))

C22_Witness ==
  /\ Generated
  /\ Subject.testid.present /\ Subject.testid.value # <<>>
  /\ HasValidId(Subject)
  /\ HasUsableClass(Subject)
  /\ locator.result.type = "data-attribute"

\* C30: on an unchanged page the selector generateSelector returned for an
\* element, of whichever of the four kinds, is resolved by findElement to an
\* element of the page, and an absolute path to the very element it was
\* generated for.
C30_LocatorRoundTrip ==
  locator.resolved =>
    /\ locator.found # NoNode
    /\ locator.result.selector.form = "/" => locator.found = locator.node

\* The state of the session the background holds
SessionState(session) == IF session = Null THEN "idle" ELSE session.state

\* The step is the background taking up a message of the type, or resuming
\* the handler of one after its tab query or its forward to the page
Handles(type) ==
  \/ \E m \in toBg : m.type = type /\ toBg' = toBg \ {m}
  \/ \E h \in querying : h.type = type /\ querying' = querying \ {h}
  \/ \E y \in fromTab : y.h.type = type /\ fromTab' = fromTab \ {y}

PauseResumeSets(type, state) ==
  (\E m \in toBg : m.type = type /\ toBg' = toBg \ {m}) =>
    IF recordingSession = Null
    THEN recordingSession' = Null /\ storageQ' = storageQ
    ELSE /\ recordingSession' = [recordingSession EXCEPT !.state = state]
         /\ Len(storageQ') = Len(storageQ) + 1
         /\ storageQ'[Len(storageQ')].op = "set"
         /\ storageQ'[Len(storageQ')].val = recordingSession'

\* C23: the session state changes only from idle to recording, by a start,
\* from recording to paused, by a pause, from paused to recording, by a
\* resume, and from recording or paused to idle, by a stop; a pause and a
\* resume set the state, write the session to storage, leave its steps as
\* they are and create no session where there is none.
C23_SessionStateMachine ==
  [][/\ LET from == SessionState(recordingSession)
            to == SessionState(recordingSession')
        IN  from # to =>
              \/ from = "idle" /\ to = "recording" /\ Handles("START_RECORDING")
              \/ from = "recording" /\ to = "paused" /\ Handles("PAUSE_RECORDING")
              \/ from = "paused" /\ to = "recording" /\ Handles("RESUME_RECORDING")
              \/ from # "idle" /\ to = "idle" /\ Handles("STOP_RECORDING")
     /\ PauseResumeSets("PAUSE_RECORDING", "paused")
     /\ PauseResumeSets("RESUME_RECORDING", "recording")]_vars

\* No handler of the background is under way
NoHandlerInFlight ==
  toBg = {} /\ querying = {} /\ storageQ = <<>> /\ toTab = {} /\ fromTab = {}

\* C24: when no handler is in flight the value stored under
\* recording_session is the session the background holds, both absent after
\* a stop; and a success answer to ADD_STEP or STOP_RECORDING is returned
\* only with the added step in the stored session, or with no session stored.
C24_PersistAfterEveryMutation ==
  /\ NoHandlerInFlight => stored = recordingSession
  /\ \A r \in out :
       r.success =>
         /\ r.type = "ADD_STEP" =>
              /\ stored # Null
              /\ \E i \in DOMAIN stored.steps : stored.steps[i].id = r.step.id
         /\ r.type = "STOP_RECORDING" => stored = Null

\* The step is the UNDO_LAST_STEP handler resuming after its forward to the
\* page, answered or not
UndoResumes(answered) ==
  \E y \in fromTab :
    /\ y.h.type = "UNDO_LAST_STEP"
    /\ y.ok \in answered
    /\ fromTab' = fromTab \ {y}

UndoPops ==
  LET steps == recordingSession.steps
      left == SubSeq(steps, 1, Len(steps) - 1)
  IN  /\ recordingSession' # Null
      /\ recordingSession'.steps = left
      /\ recordingSession'.state = recordingSession.state
      /\ \A i \in DOMAIN left : left[i].order = i - 1
      /\ Len(steps) >= 1 =>
           /\ storageQ' # <<>>
           /\ storageQ'[Len(storageQ')].op = "set"
           /\ storageQ'[Len(storageQ')].val = recordingSession'

\* C25: UNDO_LAST_STEP on a session of n >= 1 steps leaves its first n - 1
\* steps, of orders 0 to n - 2, and writes them to storage, and on a session
\* without steps leaves it so, in state recording and in state paused,
\* whether the page of the session's tab answered the forward or not.
C25_UndoRemovesLastStep ==
  [][UndoResumes({TRUE, FALSE}) /\ recordingSession # Null => UndoPops]_vars

\* C26: the steps a successful STOP_RECORDING returns hold every click whose
\* capture the Recorder had begun before the stop, the clicks still waiting
\* for their screenshot and those whose ADD_STEP is still on its way
\* included.
C26_NoStepLossAtStop ==
  \A r \in out :
    IsStop(r) /\ r.success =>
      LET returned == {r.data.steps[i].id : i \in DOMAIN r.data.steps}
      IN  /\ \A c \in captures : c.id \in returned
          /\ \A m \in toBg : IsAddStep(m) => m.step.id \in returned

\* the record of the flow in the flow store
RecordOf(list, flowId) ==
  list[CHOOSE i \in DOMAIN list : list[i].id = flowId]

\* C27: once the popup has saved a recorded flow, every step of it flagged
\* screenshotIndexedDB has its image in the blob store under the flow's and
\* the step's id, and the flow's record in the flow store holds no
\* screenshotFull for that step.
C27_RelocationOnSave ==
  [][(toast' # toast /\ toast'.kind = "success"
        /\ Persisted(flows', toast'.flow)) =>
       \A k \in DOMAIN toast'.flow.steps :
         toast'.flow.steps[k].meta.screenshotIndexedDB =>
           /\ [flowId |-> toast'.flow.id,
               stepId |-> toast'.flow.steps[k].id] \in blobs'
           /\ RecordOf(flows', toast'.flow.id).steps[k].meta.screenshotFull
                = Absent]_vars

\* an element inside a form whose text names a denylisted verb, in any case
InDangerousForm(element) ==
  /\ element.form # NoForm
  /\ \E keyword \in dangerousKeywords :
       Includes(ToLowerCase(element.form), keyword)

\* the click step under the cursor resolves to an element in such a form
AtClickInDangerousForm(p) ==
  /\ p.flow # Null
  /\ p.currentStepIndex < Len(p.flow.steps)
  /\ LET step == p.flow.steps[p.currentStepIndex + 1]
     IN /\ step.type = "click"
        /\ FindElement(p, step.selector) # NoElement
        /\ InDangerousForm(Elements[step.selector])

\* C28: next() on a click step whose element sits in a form whose text names
\* a denylisted verb never clicks it and fires no onActionPerformed, whatever
\* the element's tag and type.
C28_DangerousFormGuard ==
  [][((PlayNext \/ KeyDown("ArrowRight")) /\ AtClickInDangerousForm(playback)) =>
       /\ playback'.clicked = {}
       /\ \A i \in DOMAIN playback'.events :
            playback'.events[i][1] # "onActionPerformed"]_vars

\* ---------------------------------------------------------------- C29
\* the number of step actions the call just made has performed
ActionsPerformed(p) ==
  Cardinality({i \in DOMAIN p.events : p.events[i][1] = "onActionPerformed"})

\* goToStep(index) has run in the call just made: the cursor is there, and
\* the step was shown, or reported as not found, or its url made it throw
WentToStep(p, index) ==
  /\ p.currentStepIndex = index
  /\ \/ p.threw
     \/ /\ p.events # <<>>
        /\ p.events[Len(p.events)] \in
             {<<"onStepChanged", index>>,
              <<"onElementNotFound", p.flow.steps[index + 1].id>>}

\* the click that performStepAction makes for the step under the cursor
ClickOf(p) ==
  LET step == p.flow.steps[p.currentStepIndex + 1]
  IN  IF /\ step.type = "click"
         /\ step.selector # <<>>
         /\ step.selector \in p.dom
         /\ Elements[step.selector].html
         /\ ~IsDangerousAction(Elements[step.selector])
      THEN {step.selector}
      ELSE {}

\* C29: next() at index i performs the action of step i once and leaves the
\* cursor at i, and waits if i is below the last index; with one next() in
\* flight the end of its wait moves the cursor on by one and runs goToStep
\* there, performing no action; at the last index there is no wait and the
\* cursor stays; previous() at i > 0 moves the cursor to i - 1 and runs
\* goToStep without performing an action, and changes nothing at index 0; a
\* change of the page does not move the cursor.
C29_CursorDiscipline ==
  [][LET i == playback.currentStepIndex
         last == Len(playback.flow.steps) - 1
     IN
     /\ ((PlayNext \/ KeyDown("ArrowRight"))
          /\ playback.flow # Null /\ i <= last) =>
          /\ playback'.currentStepIndex = i
          /\ playback'.clicked = ClickOf(playback)
          /\ ActionsPerformed(playback') = Cardinality(ClickOf(playback))
          /\ playback'.timers = playback.timers + (IF i < last THEN 1 ELSE 0)
     /\ (PlayNextResumes /\ playback.timers = 1
          /\ playback.flow # Null /\ i < last) =>
          /\ WentToStep(playback', i + 1)
          /\ playback'.clicked = {}
          /\ ActionsPerformed(playback') = 0
          /\ playback'.timers = 0
     /\ (PlayPrevious \/ KeyDown("ArrowLeft")) =>
          /\ playback'.clicked = {}
          /\ ActionsPerformed(playback') = 0
          /\ IF i > 0
             THEN WentToStep(playback', i - 1)
             ELSE /\ playback'.currentStepIndex = 0
                  /\ playback'.events = <<>>
                  /\ playback'.highlight = playback.highlight
     /\ (\E selector \in DOMAIN Elements : DomChange(selector)) =>
          playback'.currentStepIndex = i]_vars

\* next() was called below the last index, clicked the step's element, and
\* its wait has ended: the cursor stands one further
C29_Witness ==
  /\ playback.call = "next resumes"
  /\ playback.flow # Null
  /\ playback.currentStepIndex = 1
  /\ playback.timers = 0
  /\ playback.events # <<>>
  /\ playback.events[Len(playback.events)] = <<"onStepChanged", 1>>

\* ---------------------------------------------------------------- C31
\* C31: a Recorder has at most one click listener on its document, and has
\* it exactly when it is recording and not paused; a page that has unloaded
\* has none, whether its Recorder was stopped or not.
C31_ListenerDiscipline ==
  \A t \in lim.tabs :
    /\ agent[t].listeners <= 1
    /\ agent[t].listeners = 1 <=> agent[t].attached
    /\ agent[t].attached <=> (agent[t].isRecording /\ ~agent[t].isPaused)
    /\ ~agent[t].loaded => agent[t].listeners = 0

\* a Recorder that was paused has been resumed twice
C31_Witness ==
  /\ agent[1].isRecording /\ ~agent[1].isPaused
  /\ agent[1].listeners = 1
  /\ cmds = 3
  /\ recordingSession # Null /\ recordingSession.state = "recording"
  /\ NoHandlerInFlight

\* ---------------------------------------------------------------- C32
\* the steps the Recorder has emitted and the session has accepted
EmittedSteps == {m.step : m \in {x \in toBg : IsAddStep(x)}}

AcceptedSteps ==
  IF recordingSession = Null THEN {}
  ELSE {recordingSession.steps[i] : i \in DOMAIN recordingSession.steps}

WithinLimits(explanation) ==
  /\ Len(explanation) >= 1
  /\ Len(explanation) <= MAX_LENGTH

\* C32: every step the Recorder emits and the session accepts, click or
\* manual, has an explanation of 1 to 200 characters.
C32_ExplanationLength ==
  \A step \in EmittedSteps \cup captures \cup AcceptedSteps :
    WithinLimits(step.explanation)

\* the part about clicks: a generated explanation has 1 to 200 characters,
\* and one that was cut has exactly 200 and ends in the ellipsis
C32_GeneratedExplanationLength ==
  \A step \in EmittedSteps \cup captures \cup AcceptedSteps :
    step.type = "click" =>
      /\ WithinLimits(step.explanation)
      /\ \A target \in lim.targets :
           (/\ step.explanation = GenerateStepExplanation(target)
            /\ Len(target.text) + Len(target.placeholder) > MAX_LENGTH - 6)
           => /\ Len(step.explanation) = MAX_LENGTH
              /\ SubSeq(step.explanation, MAX_LENGTH - 2, MAX_LENGTH) = Ellipsis

\* the session holds a click step whose explanation was cut
C32_Witness ==
  \E step \in AcceptedSteps :
    /\ step.type = "click"
    /\ Len(step.explanation) = MAX_LENGTH
    /\ SubSeq(step.explanation, MAX_LENGTH - 2, MAX_LENGTH) = Ellipsis
    /\ step.explanation # ClickWord \o Text(MAX_LENGTH - 6)

\* ---------------------------------------------------------------- C33
\* the page agent of the tab that owns the session, when that page is loaded
OwningAgents ==
  IF recordingSession = Null THEN {}
  ELSE {t \in lim.tabs : t = recordingSession.tabId /\ agent[t].loaded}

\* C33: whenever the session is recording and the owning tab's agent has
\* processed every message sent to it (its load-time state check and the
\* RESUME_RECORDING notification among them), that agent is capturing
\* clicks: after pause, navigate, resume the new page's Recorder has its
\* click listener attached.
C33_AgreementAfterResume ==
  \A r \in out :
    (/\ r.type = "RESUME_RECORDING" /\ r.success
     /\ recordingSession # Null
     /\ recordingSession.state = "recording"
     /\ InFlight = 0)
    => \A t \in OwningAgents : agent[t].attached

\* ---------------------------------------------------------------- C34
\* C34: once a STOP_RECORDING has completed (no session in memory or in
\* storage) and every message and response in flight has been delivered,
\* no page agent has its click listener attached: an answer to
\* GET_RECORDING_STATE that was produced before the stop and reaches the
\* agent after the STOP notification does not start the Recorder again.
C34_NoZombieRecorder ==
  (/\ recordingSession = Null
   /\ stored = Null
   /\ InFlight = 0)
  => \A t \in lim.tabs : ~agent[t].attached

\* ---------------------------------------------------------------- C35
\* STOP_RECORDING has just returned the steps of the session it stopped
StopReturned(r) ==
  /\ r.type = "STOP_RECORDING" /\ r.success
  /\ r.data.steps # <<>>

\* C35: a GET_RECORDING_STATE that runs while STOP_RECORDING is suspended
\* at one of its awaits does not bring the session back: when STOP has
\* returned, the session it stopped is not the in-memory session.
C35_NoResurrection ==
  \A r \in out :
    StopReturned(r) =>
      \/ recordingSession = Null
      \/ recordingSession.steps # r.data.steps

\* ---------------------------------------------------------------- C36
\* C36: the startup restore never overwrites a newer decision: when a
\* START_RECORDING handled by a freshly started background has returned
\* success, the startup restore has resolved and nothing else is under way,
\* the in-memory session is the one the handler created and persisted.
C36_StartupKeepsNewerSession ==
  \A r \in out :
    (/\ r.type = "START_RECORDING" /\ r.success
     /\ restarts > 0
     /\ ~StartupPending
     /\ InFlight = 0)
    => /\ recordingSession # Null
       /\ stored # Null => recordingSession.startTime = stored.startTime

\* ---------------------------------------------------------------- C37
\* the flows of the list that have another id than this one
OtherFlows(list, flowId) ==
  {list[i] : i \in {j \in DOMAIN list : list[j].id # flowId}}

\* C37: updates of the flow store are not lost when operations interleave:
\* the write of a saveFlow or deleteFlow on one flow id leaves every stored
\* flow of another id as it is, so that the list reflects both of two
\* concurrent operations on different ids.
C37_NoLostUpdate ==
  [][\A c \in calls : \A ok \in BOOLEAN :
       WriteFlows(c, ok) => OtherFlows(flows', c.flowId) = OtherFlows(flows, c.flowId)]_vars

\* ---------------------------------------------------------------- C38
\* a manual step is in the session, or on its way to a session that is
\* recording
ManualStepAppended ==
  \/ \E step \in AcceptedSteps : step.type = "manual"
  \/ /\ \E step \in EmittedSteps : step.type = "manual"
     /\ recordingSession # Null
     /\ recordingSession.state = "recording"

\* C38: a success response to ADD_MANUAL_STEP implies that a manual step
\* was appended to the session; whenever none is (the Recorder of the page
\* is not recording, the session is paused or absent) the response reports
\* failure.
C38_ManualStepAnswer ==
  \A r \in out :
    (r.type = "ADD_MANUAL_STEP" /\ r.success) => ManualStepAppended

\* ---------------------------------------------------------------- C39
\* C39: overlapping next() calls behave like sequential ones: a call that
\* resumes after its wait advances the cursor by at most one, and the step
\* it leaves is the step whose action it executed, so that no step is
\* passed over without its action.
C39_OverlappingNext ==
  [][PlayNextResumes =>
       /\ playback'.currentStepIndex <= playback.currentStepIndex + 1
       /\ playback'.currentStepIndex # playback.currentStepIndex
          => Head(playback.waiting) = playback.currentStepIndex]_vars

\* the part about stop(): a next() that was waiting when stop() was called
\* renders no overlay when it resumes
C39_PendingNextAfterStop ==
  [][(PlayNextResumes /\ playback.flow = Null)
       => /\ playback'.highlight = NoElement
          /\ playback'.tooltip = NoElement
          /\ playback'.highlights = 0
          /\ playback'.tooltips = 0]_vars

\* ---------------------------------------------------------------- C40
\* what GET_RECORDING_STATE tells about a session
SessionAnswer(session) ==
  [isRecording |-> session.state = "recording",
   stepCount |-> Len(session.steps),
   state |-> session.state,
   tabId |-> session.tabId]

\* C40: GET_RECORDING_STATE gives the same answer whether the session is
\* served from memory or was reconstructed from storage: isRecording,
\* stepCount, state and tabId are those of the session the background holds.
C40_SameAnswerFromStorage ==
  \A r \in out :
    (IsGet(r) /\ r.success /\ recordingSession # Null)
    => r.data = SessionAnswer(recordingSession)

====
